---- MODULE Spec2Model ----
(***************************************************************************)
(* Model of the wave engine of UnnamedGame: Grid, findMatches, Score and   *)
(* the Wave state machine (src/src/core/achievements.ts, which holds the   *)
(* text of core/wave.ts from line 555 on) with the item catalog of         *)
(* src/src/core/items.ts, and of the Run state machine with Select.sample  *)
(* (src/src/core/run.ts).                                                  *)
(*                                                                         *)
(* Four specifications share the variables: Spec (one Wave and every       *)
(* operation on it), SpecRun (a Run, the Select and the Wave it hands      *)
(* out), SpecSample and SpecMatch (Select.sample and findMatches applied   *)
(* to drawn arguments).                                                    *)
(*                                                                         *)
(* Array indices are 0-based as in the source; a TLA+ sequence holding a   *)
(* source array a stores a[i] at position i+1.                             *)
(***************************************************************************)
EXTENDS Integers, Sequences, FiniteSets, TLC

VARIABLES
  state,        \* Wave.state: history of {grid, score, action}
  stateIndex,   \* Wave.stateIndex: the cursor, 0-based
  totalScore,   \* Wave.totalScore
  frame,        \* Wave.frame
  roll,         \* Wave.roll
  DEV_MODE,     \* module-level flag of wave.ts
  scoresCreated,\* number of Score objects constructed so far (Score.create calls)
  hookRuns,     \* number of bonus.onScore invocations so far
  gridScored,   \* the onGridScored(wave, score) events of this wave, in order
  last,         \* the last call made on the wave and how it ended
  trip,         \* bookkeeping of the current execute^n undo^k redo^j call sequence
  s,            \* Wave.s: the WaveSettings the wave was constructed with
  items,        \* Run.items: the inventory, item names
  phaseIndex,   \* Run.phaseIndex
  select,       \* the Select object Run.next returned last: offers, selected
  ret,          \* what the last call on the Run returned or threw
  emitted,      \* the AchievementTracker events the last call on the Run emitted
  rcall,        \* the last call made on the Run, and the calls of next so far
  input,        \* arguments drawn for a function applied on its own
  output        \* the value that application returned

vars == <<state, stateIndex, totalScore, frame, roll, DEV_MODE,
          scoresCreated, hookRuns, gridScored, last, trip,
          s, items, phaseIndex, select, ret, emitted, rcall, input, output>>

\* the variables of the Run and of the function applications
runVars == <<items, phaseIndex, select, ret, emitted, rcall>>
fnVars == <<input, output>>

----------------------------------------------------------------------------
(* Bounds of the model *)

\* cap on the number of Score objects one behaviour constructs
MaxScores == 3

----------------------------------------------------------------------------
(* enum Cell *)

O == 0
X == 1
W == 2

\* the value null of `number | null` fields (component lookup, recorded action)
NULL == -1

\* multipliers are kept in hundredths: Scale stands for the number 1
Scale == 100

----------------------------------------------------------------------------
(* class Grid *)

Grid(rows, cols, cells) == [rows |-> rows, cols |-> cols, cells |-> cells]

\* Grid.random: every cell X or O; all outcomes of Math.random() < 0.5
GridRandom(rows, cols) ==
  { Grid(rows, cols, cells) : cells \in [1..(rows * cols) -> {X, O}] }

\* Grid.replace, for cells of the right length
Replace(grid, cells) == Grid(grid.rows, grid.cols, cells)

\* Visit that takes the cells before and after idx for its left and right
\* neighbours, across the ends of the rows
RECURSIVE VisitWraps(_, _, _, _)
VisitWraps(grid, idx, component, acc) ==
  IF grid.cells[idx + 1] # O /\ acc.cellToComponent[idx + 1] = NULL
  THEN LET r  == idx \div grid.cols
           c  == idx % grid.cols
           a0 == [components |->
                    [acc.components EXCEPT ![component + 1] = Append(@, idx)],
                  cellToComponent |->
                    [acc.cellToComponent EXCEPT ![idx + 1] = component]]
           a1 == IF idx >= 1 THEN VisitWraps(grid, idx - 1, component, a0) ELSE a0
           a2 == IF idx <= grid.rows * grid.cols - 2 THEN VisitWraps(grid, idx + 1, component, a1) ELSE a1
           a3 == IF r >= 1 THEN VisitWraps(grid, idx - grid.cols, component, a2) ELSE a2
           a4 == IF r <= grid.rows - 2 THEN VisitWraps(grid, idx + grid.cols, component, a3) ELSE a3
       \* the calls run one after the other: each returns before the next starts
       IN  IF a1 = a1 /\ a2 = a2 /\ a3 = a3 THEN a4 ELSE a4
  ELSE acc

\* Visit that tries the neighbours up, down, left, right
RECURSIVE VisitUpDownFirst(_, _, _, _)
VisitUpDownFirst(grid, idx, component, acc) ==
  IF grid.cells[idx + 1] # O /\ acc.cellToComponent[idx + 1] = NULL
  THEN LET r  == idx \div grid.cols
           c  == idx % grid.cols
           a0 == [components |->
                    [acc.components EXCEPT ![component + 1] = Append(@, idx)],
                  cellToComponent |->
                    [acc.cellToComponent EXCEPT ![idx + 1] = component]]
           a1 == IF r >= 1 THEN VisitUpDownFirst(grid, idx - grid.cols, component, a0) ELSE a0
           a2 == IF r <= grid.rows - 2 THEN VisitUpDownFirst(grid, idx + grid.cols, component, a1) ELSE a1
           a3 == IF c >= 1 THEN VisitUpDownFirst(grid, idx - 1, component, a2) ELSE a2
           a4 == IF c <= grid.cols - 2 THEN VisitUpDownFirst(grid, idx + 1, component, a3) ELSE a3
       \* the calls run one after the other: each returns before the next starts
       IN  IF a1 = a1 /\ a2 = a2 /\ a3 = a3 THEN a4 ELSE a4
  ELSE acc

\* Visit that does not try the neighbour below
RECURSIVE VisitNoDown(_, _, _, _)
VisitNoDown(grid, idx, component, acc) ==
  IF grid.cells[idx + 1] # O /\ acc.cellToComponent[idx + 1] = NULL
  THEN LET r  == idx \div grid.cols
           c  == idx % grid.cols
           a0 == [components |->
                    [acc.components EXCEPT ![component + 1] = Append(@, idx)],
                  cellToComponent |->
                    [acc.cellToComponent EXCEPT ![idx + 1] = component]]
           a1 == IF c >= 1 THEN VisitNoDown(grid, idx - 1, component, a0) ELSE a0
           a2 == IF c <= grid.cols - 2 THEN VisitNoDown(grid, idx + 1, component, a1) ELSE a1
           a3 == IF r >= 1 THEN VisitNoDown(grid, idx - grid.cols, component, a2) ELSE a2
           a4 == a3
       \* the calls run one after the other: each returns before the next starts
       IN  IF a1 = a1 /\ a2 = a2 /\ a3 = a3 THEN a4 ELSE a4
  ELSE acc

\* the closure `visit` of Grid.getComponents; acc = {components, cellToComponent}
RECURSIVE Visit(_, _, _, _)
Visit(grid, idx, component, acc) ==
  IF grid.cells[idx + 1] # O /\ acc.cellToComponent[idx + 1] = NULL
  THEN LET r  == idx \div grid.cols
           c  == idx % grid.cols
           a0 == [components |->
                    [acc.components EXCEPT ![component + 1] = Append(@, idx)],
                  cellToComponent |->
                    [acc.cellToComponent EXCEPT ![idx + 1] = component]]
           a1 == IF c >= 1 THEN Visit(grid, idx - 1, component, a0) ELSE a0
           a2 == IF c <= grid.cols - 2
                 THEN Visit(grid, idx + 1, component, a1) ELSE a1
           a3 == IF r >= 1
                 THEN Visit(grid, idx - grid.cols, component, a2) ELSE a2
           a4 == IF r <= grid.rows - 2
                 THEN Visit(grid, idx + grid.cols, component, a3) ELSE a3
       \* the calls run one after the other: each returns before the next starts
       IN  IF a1 = a1 /\ a2 = a2 /\ a3 = a3 THEN a4 ELSE a4
  ELSE acc

\* the for loop of Grid.getComponents, from cell i on
RECURSIVE ComponentsFrom(_, _, _)
ComponentsFrom(grid, i, acc) ==
  IF i >= grid.rows * grid.cols THEN acc
  ELSE IF grid.cells[i + 1] # O /\ acc.cellToComponent[i + 1] = NULL
       THEN ComponentsFrom(grid, i + 1,
              Visit(grid, i, Len(acc.components),
                    [acc EXCEPT !.components = Append(@, <<>>)]))
       ELSE ComponentsFrom(grid, i + 1, acc)

GetComponents(grid) ==
  ComponentsFrom(grid, 0,
    [components |-> <<>>,
     cellToComponent |-> [k \in 1..(grid.rows * grid.cols) |-> NULL]])

----------------------------------------------------------------------------
(* Items: patterns, findMatches *)

\* a Pattern item: two filled cells side by side ("xx"), worth 3 points
pair == [name |-> "pair", grid |-> Grid(1, 2, <<X, X>>), points |-> 3]

\* IsMatch where only a Wildcard of the pattern matches everything
IsMatchPatternWild(pgrid, grid, i) ==
  \A j \in 0..(pgrid.rows * pgrid.cols - 1) :
    LET pr == j \div pgrid.cols
        pc == j % pgrid.cols
        p  == pgrid.cells[j + 1]
        c  == grid.cells[i + pr * grid.cols + pc + 1]
    IN  ~(p # c /\ p # W)

\* the inner loop of findMatches: does pgrid match grid at anchor i
IsMatch(pgrid, grid, i) ==
  \A j \in 0..(pgrid.rows * pgrid.cols - 1) :
    LET pr == j \div pgrid.cols
        pc == j % pgrid.cols
        p  == pgrid.cells[j + 1]
        c  == grid.cells[i + pr * grid.cols + pc + 1]
    IN  ~(p # c /\ p # W /\ c # W)

\* MatchesFrom with the pattern kept off the last column of the grid
RECURSIVE MatchesFromNarrow(_, _, _)
MatchesFromNarrow(pgrid, grid, i) ==
  IF i >= grid.rows * grid.cols THEN <<>>
  ELSE IF /\ (i \div grid.cols) + pgrid.rows <= grid.rows
          /\ (i % grid.cols) + pgrid.cols < grid.cols
          /\ IsMatch(pgrid, grid, i)
       THEN <<i>> \o MatchesFromNarrow(pgrid, grid, i + 1)
       ELSE MatchesFromNarrow(pgrid, grid, i + 1)

RECURSIVE MatchesFrom(_, _, _)
MatchesFrom(pgrid, grid, i) ==
  IF i >= grid.rows * grid.cols THEN <<>>
  ELSE IF /\ (i \div grid.cols) + pgrid.rows <= grid.rows
          /\ (i % grid.cols) + pgrid.cols <= grid.cols
          /\ IsMatch(pgrid, grid, i)
       THEN <<i>> \o MatchesFrom(pgrid, grid, i + 1)
       ELSE MatchesFrom(pgrid, grid, i + 1)

findMatches(pattern, grid) == MatchesFrom(pattern.grid, grid, 0)

----------------------------------------------------------------------------
(* class ComponentScore *)

ComponentScore(cellIndices) ==
  [multiplier |-> Scale, cellPoints |-> 1, alwaysScoring |-> FALSE,
   matches |-> <<>>, cellIndices |-> cellIndices]

addMatch(comp, pattern, patternIndex, position) ==
  [comp EXCEPT !.matches =
     Append(@, [pattern |-> pattern.name, patternIndex |-> patternIndex,
                position |-> position, points |-> pattern.points])]

RECURSIVE SumPoints(_)
SumPoints(matches) ==
  IF matches = <<>> THEN 0 ELSE Head(matches).points + SumPoints(Tail(matches))

\* Math.floor in place of Math.ceil
CeilMulFloor(m, total) == (m * total) \div Scale

\* Math.ceil(m * total) for a multiplier m held in hundredths
CeilMul(m, total) == -((-(m * total)) \div Scale)

\* ComponentScore.score
CompScore(comp) ==
  LET total == SumPoints(comp.matches)
               + (IF Len(comp.matches) >= 1 \/ comp.alwaysScoring
                  THEN Len(comp.cellIndices) * comp.cellPoints ELSE 0)
  IN  CeilMul(comp.multiplier, total)

----------------------------------------------------------------------------
(* class Score *)

RECURSIVE SumCompScores(_)
SumCompScores(components) ==
  IF components = <<>> THEN 0
  ELSE CompScore(Head(components)) + SumCompScores(Tail(components))

\* Score.total
Total(score) ==
  CeilMul(score.multiplier, SumCompScores(score.components) + score.flatPoints)

\* pComponents holding every component of the grid
PComponentsAll(pattern, grid, cellToComponent, match) ==
  { cellToComponent[i] : i \in 1..Len(cellToComponent) } \ {NULL}

\* the set pComponents that Score.create builds for one match, without null
PComponents(pattern, grid, cellToComponent, match) ==
  { cellToComponent[match + (j \div pattern.grid.cols) * grid.cols
                          + (j % pattern.grid.cols) + 1] :
      j \in 0..(pattern.grid.rows * pattern.grid.cols - 1) } \ {NULL}

\* the loop over the matches of one pattern in Score.create
RECURSIVE AddMatches(_, _, _, _, _, _)
AddMatches(components, pattern, pIdx, matches, grid, cellToComponent) ==
  IF matches = <<>> THEN components
  ELSE LET match == Head(matches)
           pc    == PComponents(pattern, grid, cellToComponent, match)
           next  == [k \in 1..Len(components) |->
                       IF (k - 1) \in pc
                       THEN addMatch(components[k], pattern, pIdx, match)
                       ELSE components[k]]
       IN  AddMatches(next, pattern, pIdx, Tail(matches), grid, cellToComponent)

\* the loop over patterns.entries() in Score.create, from pattern pIdx on
RECURSIVE AddPatterns(_, _, _, _, _)
AddPatterns(components, patterns, pIdx, grid, cellToComponent) ==
  IF pIdx >= Len(patterns) THEN components
  ELSE AddPatterns(
         AddMatches(components, patterns[pIdx + 1], pIdx,
                    findMatches(patterns[pIdx + 1], grid), grid, cellToComponent),
         patterns, pIdx + 1, grid, cellToComponent)

\* Score.create; id is the identity of the new Score object
ScoreCreate(grid, patterns, id) ==
  LET gridC == GetComponents(grid)
      components == [k \in 1..Len(gridC.components) |->
                       ComponentScore(gridC.components[k])]
  IN  [id |-> id, flatPoints |-> 0, multiplier |-> Scale,
       components |-> AddPatterns(components, patterns, 0, grid,
                                  gridC.cellToComponent),
       cellToComponent |-> gridC.cellToComponent]

----------------------------------------------------------------------------
(* Items: bonuses (the onScore hooks of items.ts) *)

\* ppoints_flat(3, "common")
ppoints_flat_common(score) ==
  [score EXCEPT !.components =
     [k \in 1..Len(@) |->
        [@[k] EXCEPT !.matches =
           [m \in 1..Len(@) |-> [@[m] EXCEPT !.points = @ + 3]]]]]

\* mult_flat(0.15, "common")
mult_flat_common(score) ==
  [score EXCEPT !.components =
     [k \in 1..Len(@) |-> [@[k] EXCEPT !.multiplier = @ + 15]]]

\* countEdges(cells, grid): how many of the four grid edges the cells touch
countEdges(cells, grid) ==
  LET top    == \E p \in 1..Len(cells) : cells[p] \div grid.cols = 0
      bottom == \E p \in 1..Len(cells) : cells[p] \div grid.cols = grid.rows - 1
      left   == \E p \in 1..Len(cells) : cells[p] % grid.cols = 0
      right  == \E p \in 1..Len(cells) : cells[p] % grid.cols = grid.cols - 1
  IN  (IF top THEN 1 ELSE 0) + (IF bottom THEN 1 ELSE 0)
      + (IF left THEN 1 ELSE 0) + (IF right THEN 1 ELSE 0)

\* mult_no_edges
mult_no_edges(score, grid) ==
  [score EXCEPT !.components =
     [k \in 1..Len(@) |->
        IF countEdges(@[k].cellIndices, grid) = 0
        THEN [@[k] EXCEPT !.multiplier = @ * 3]
        ELSE @[k]]]

\* gpoints_flat(50, "common")
gpoints_flat_common(score) == [score EXCEPT !.flatPoints = @ + 50]

\* gmult_flat(0.15, "common")
gmult_flat_common(score) == [score EXCEPT !.multiplier = @ + 15]

\* points_per_cell
points_per_cell(score) ==
  [score EXCEPT !.components =
     [k \in 1..Len(@) |-> [@[k] EXCEPT !.cellPoints = @ + 1]]]

\* score_every_group
score_every_group(score) ==
  [score EXCEPT !.components =
     [k \in 1..Len(@) |-> [@[k] EXCEPT !.alwaysScoring = TRUE]]]

\* bonus.onScore(score, grid), by item name
onScore(bonus, score, grid) ==
  CASE bonus = "ppoints_flat_common" -> ppoints_flat_common(score)
    [] bonus = "points_per_cell"     -> points_per_cell(score)
    [] bonus = "score_every_group"   -> score_every_group(score)
    [] bonus = "mult_flat_common"    -> mult_flat_common(score)
    [] bonus = "mult_no_edges"       -> mult_no_edges(score, grid)
    [] bonus = "gpoints_flat_common" -> gpoints_flat_common(score)
    [] bonus = "gmult_flat_common"   -> gmult_flat_common(score)

\* the loop taking the bonuses from the last to the first
RECURSIVE RunBonusesReversed(_, _, _)
RunBonusesReversed(bonuses, score, grid) ==
  IF bonuses = <<>> THEN score
  ELSE RunBonusesReversed(SubSeq(bonuses, 1, Len(bonuses) - 1),
                          onScore(bonuses[Len(bonuses)], score, grid), grid)

\* the loop over this.s.bonuses in Wave.push
RECURSIVE RunBonuses(_, _, _)
RunBonuses(bonuses, score, grid) ==
  IF bonuses = <<>> THEN score
  ELSE RunBonuses(Tail(bonuses), onScore(Head(bonuses), score, grid), grid)

----------------------------------------------------------------------------
(* Items: actions (the execute functions of items.ts) *)

\* the arrays an execute function works on: grid.cells of its argument and
\* its local cellsOut. const cellsOut = grid.cells.slice() makes a new array
Slice(grid) == [grid |-> grid.cells, cellsOut |-> grid.cells]

\* a write where cellsOut is the array grid.cells itself
WriteCellAliased(mem, i, cell) ==
  [mem EXCEPT !.cellsOut[i + 1] = cell, !.grid[i + 1] = cell]

\* cellsOut[i] = cell
WriteCell(mem, i, cell) == [mem EXCEPT !.cellsOut[i + 1] = cell]

\* the body of swap: both cells are read, then both are written
swapBody(mem, arg) ==
  LET atJ == mem.cellsOut[arg.j + 1]
      atI == mem.cellsOut[arg.i + 1]
  IN  WriteCell(WriteCell(mem, arg.i, atJ), arg.j, atI)

\* the body of wildcard
wildcardBody(mem, arg) == WriteCell(mem, arg.i, W)

\* ShiftLoop reading the cells from the array it writes to
RECURSIVE ShiftLoopInPlace(_, _, _, _, _, _)
ShiftLoopInPlace(mem, n, i0, delta, stride, count) ==
  IF n >= count THEN mem
  ELSE LET i == i0 + stride * n
           j == i0 + stride * ((n + delta + count) % count)
       IN  ShiftLoopInPlace(WriteCell(mem, i, mem.cellsOut[j + 1]),
                            n + 1, i0, delta, stride, count)

\* the for loop of shift, from n on
RECURSIVE ShiftLoop(_, _, _, _, _, _)
ShiftLoop(mem, n, i0, delta, stride, count) ==
  IF n >= count THEN mem
  ELSE LET i == i0 + stride * n
           j == i0 + stride * ((n + delta + count) % count)
       IN  ShiftLoop(WriteCell(mem, i, mem.grid[j + 1]),
                     n + 1, i0, delta, stride, count)

\* the body of shift: arg = {index, direction}
shiftBody(mem, rows, cols, arg) ==
  IF arg.direction \in {"up", "down"}
  THEN ShiftLoop(mem, 0, arg.index,
                 IF arg.direction = "up" THEN 1 ELSE -1, cols, rows)
  ELSE ShiftLoop(mem, 0, cols * arg.index,
                 IF arg.direction = "left" THEN 1 ELSE -1, 1, cols)

\* the two for loops of flip_y, from cell k = r * cols + c on
RECURSIVE FlipLoop(_, _, _, _)
FlipLoop(mem, k, rows, cols) ==
  IF k >= rows * cols THEN mem
  ELSE LET r == k \div cols
           c == k % cols
       IN  FlipLoop(WriteCell(mem, (rows - 1 - r) * cols + c,
                              mem.grid[r * cols + c + 1]),
                    k + 1, rows, cols)

\* gravity, second inner loop: the cells above the fallen ones become Empty
RECURSIVE GravityClear(_, _, _, _)
GravityClear(mem, col, writeR, cols) ==
  IF writeR < 0 THEN mem
  ELSE GravityClear(WriteCell(mem, writeR * cols + col, O), col, writeR - 1, cols)

\* gravity, first inner loop: row r of column col, going up
RECURSIVE GravityFall(_, _, _, _, _)
GravityFall(mem, col, r, writeR, cols) ==
  IF r < 0 THEN GravityClear(mem, col, writeR, cols)
  ELSE LET cell == mem.grid[r * cols + col + 1]
       IN  IF cell # O
           THEN GravityFall(WriteCell(mem, writeR * cols + col, cell),
                            col, r - 1, writeR - 1, cols)
           ELSE GravityFall(mem, col, r - 1, writeR, cols)

\* gravity, the loop over the columns
RECURSIVE GravityLoop(_, _, _, _)
GravityLoop(mem, col, rows, cols) ==
  IF col >= cols THEN mem
  ELSE GravityLoop(GravityFall(mem, col, rows - 1, rows - 1, cols),
                   col + 1, rows, cols)

\* the arrays when action.execute(grid, arg) reaches its return statement
Body(action, grid, arg) ==
  CASE action = "swap"     -> swapBody(Slice(grid), arg)
    [] action = "wildcard" -> wildcardBody(Slice(grid), arg)
    [] action = "shift"    -> shiftBody(Slice(grid), grid.rows, grid.cols, arg)
    [] action = "flip_y"   -> FlipLoop(Slice(grid), 0, grid.rows, grid.cols)
    [] action = "gravity"  -> GravityLoop(Slice(grid), 0, grid.rows, grid.cols)

\* action swap: arg = {i, j}
swap(grid, arg) == Replace(grid, Body("swap", grid, arg).cellsOut)

\* action wildcard: arg = {i}
wildcard(grid, arg) == Replace(grid, Body("wildcard", grid, arg).cellsOut)

\* action.execute(grid, arg), by item name: return grid.replace(cellsOut)
execute(action, grid, arg) == Replace(grid, Body(action, grid, arg).cellsOut)

\* flip_y and gravity take the grid alone
NoArg == [none |-> TRUE]

\* the arguments the callers pass to an action: cell indices of the grid, a
\* column or a row with a direction, or nothing
Args(action, grid) ==
  LET cellIdx == 0..(grid.rows * grid.cols - 1)
  IN  CASE action = "swap"     -> [i : cellIdx, j : cellIdx]
        [] action = "wildcard" -> [i : cellIdx]
        [] action = "shift"    ->
             [index : 0..(grid.cols - 1), direction : {"up", "down"}]
               \cup [index : 0..(grid.rows - 1), direction : {"left", "right"}]
        [] action = "flip_y"   -> {NoArg}
        [] action = "gravity"  -> {NoArg}

----------------------------------------------------------------------------
(* class Wave *)

\* the WaveSettings the wave of Spec is constructed with
settings == [targetScore |-> 4, maxFrames |-> 2, maxRolls |-> 1,
             gridRows |-> 1, gridCols |-> 2,
             patterns |-> <<pair>>,
             actions  |-> <<"swap", "wildcard">>,
             bonuses  |-> <<"score_every_group", "points_per_cell">>]

\* the entry Wave.push builds: a fresh Score with every bonus hook run on it
Entry(grid, action, id) ==
  [grid |-> grid,
   score |-> RunBonuses(s.bonuses, ScoreCreate(grid, s.patterns, id), grid),
   action |-> action]

\* Wave.push onto the history `base` (this.state as the caller left it)
Push(base, grid, action) ==
  /\ state' = Append(base, Entry(grid, action, scoresCreated + 1))
  /\ stateIndex' = Len(state') - 1
  /\ scoresCreated' = scoresCreated + 1
  /\ hookRuns' = hookRuns + Len(s.bonuses)

\* get grid / get score: the entry at the cursor
Cur == state[stateIndex + 1]

\* Wave.hasAction (the same scan as in availableActions and in execute)
hasAction(action) ==
  \A i \in 0..stateIndex : state[i + 1].action # action

\* StatusOf with the target compared strictly (total > targetScore)
StatusOfStrict(dev, f, total) ==
  IF dev THEN (IF f < s.maxFrames THEN "playing" ELSE "win")
  ELSE IF f >= s.maxFrames \/ total > s.targetScore
       THEN (IF total > s.targetScore THEN "win" ELSE "lose")
       ELSE "playing"

\* dev mode: win as soon as one frame was submitted
StatusOfDevWins(dev, f, total) ==
  IF dev THEN (IF f < 1 THEN "playing" ELSE "win")
  ELSE IF f >= s.maxFrames \/ total >= s.targetScore
       THEN (IF total >= s.targetScore THEN "win" ELSE "lose")
       ELSE "playing"

\* a status that is never lose: playing until the target is reached
StatusOfNeverLose(dev, f, total) ==
  IF dev THEN (IF f < s.maxFrames THEN "playing" ELSE "win")
  ELSE IF total >= s.targetScore THEN "win" ELSE "playing"

\* get status, for given values of the fields it reads
StatusOf(dev, f, total) ==
  IF dev THEN (IF f < s.maxFrames THEN "playing" ELSE "win")
  ELSE IF f >= s.maxFrames \/ total >= s.targetScore
       THEN (IF total >= s.targetScore THEN "win" ELSE "lose")
       ELSE "playing"

status == StatusOf(DEV_MODE, frame, totalScore)

\* get usedActions: the actions of all entries of the history, null left out
usedActions ==
  LET recorded == SelectSeq([k \in 1..Len(state) |-> state[k].action],
                            LAMBDA a : a # NULL)
  IN  [k \in 1..Len(recorded) |-> s.actions[recorded[k] + 1]]

\* get availableActions: the [action, idx] pairs not used up to the cursor
availableActions ==
  SelectSeq([idx \in 1..Len(s.actions) |-> <<s.actions[idx], idx - 1>>],
            LAMBDA entry : hasAction(entry[2]))

canUndo == stateIndex > 0
canRedo == stateIndex < Len(state) - 1

\* what `last` records of a call
Call(op, action, error, done) ==
  [op |-> op, action |-> action, error |-> error, done |-> done]

\* no execute/undo/redo sequence recorded
NoTrip == [pre |-> <<>>, undos |-> 0, redos |-> 0, tipState |-> <<>>, tipIndex |-> 0]

\* no Run, no Select and no function application
NoSelect == [phase |-> "none", offers |-> <<>>, selected |-> NULL]
NoRet == [kind |-> "none", result |-> "", error |-> FALSE]
NoCall == [op |-> "none", lastPhase |-> "none", nexts |-> 0,
           inOrder |-> TRUE, held |-> "none", outcome |-> ""]
NoInput == [fn |-> "none"]
NoOutput == [done |-> FALSE, value |-> <<>>]

\* new Wave(s): push(Grid.random(s.gridRows, s.gridCols), null)
Init ==
  /\ s = settings
  /\ \E grid \in GridRandom(s.gridRows, s.gridCols) :
       state = <<Entry(grid, NULL, 1)>>
  /\ stateIndex = 0
  /\ totalScore = 0
  /\ frame = 0
  /\ roll = 0
  /\ DEV_MODE = FALSE
  /\ scoresCreated = 1
  /\ hookRuns = Len(s.bonuses)
  /\ gridScored = <<>>
  /\ last = Call("new", NULL, FALSE, TRUE)
  /\ trip = NoTrip
  /\ items = <<>>
  /\ phaseIndex = -1
  /\ select = NoSelect
  /\ ret = NoRet
  /\ emitted = <<>>
  /\ rcall = NoCall
  /\ input = NoInput
  /\ output = NoOutput

\* setDevMode(enabled)
SetDevMode ==
  \E enabled \in BOOLEAN :
    /\ DEV_MODE' = enabled
    /\ last' = Call("setDevMode", NULL, FALSE, TRUE)
    /\ UNCHANGED <<state, stateIndex, totalScore, frame, roll,
                   scoresCreated, hookRuns, gridScored, trip>>

\* Execute without state.splice(stateIndex + 1): the redo tail is kept
ExecuteNoSplice ==
  \E action \in 0..(Len(s.actions) - 1) :
    \E arg \in Args(s.actions[action + 1], Cur.grid) :
      /\ scoresCreated < MaxScores
      /\ LET grid == execute(s.actions[action + 1], Cur.grid, arg)
         IN  Push(state, grid, action)
      /\ last' = Call("execute", action, ~hasAction(action), TRUE)
      /\ trip' = [pre |-> IF trip.undos = 0 THEN Append(trip.pre, Cur) ELSE <<Cur>>,
                  undos |-> 0, redos |-> 0,
                  tipState |-> state', tipIndex |-> stateIndex']
      /\ UNCHANGED <<totalScore, frame, roll, DEV_MODE, gridScored>>

\* Wave.execute(action, arg): the scan only logs, the action is then executed
Execute ==
  \E action \in 0..(Len(s.actions) - 1) :
    \E arg \in Args(s.actions[action + 1], Cur.grid) :
      /\ scoresCreated < MaxScores
      /\ LET grid == execute(s.actions[action + 1], Cur.grid, arg)
         IN  Push(SubSeq(state, 1, stateIndex + 1), grid, action)
      /\ last' = Call("execute", action, ~hasAction(action), TRUE)
      /\ trip' = [pre |-> IF trip.undos = 0 THEN Append(trip.pre, Cur) ELSE <<Cur>>,
                  undos |-> 0, redos |-> 0,
                  tipState |-> state', tipIndex |-> stateIndex']
      /\ UNCHANGED <<totalScore, frame, roll, DEV_MODE, gridScored>>

\* Undo without the test stateIndex > 0
UndoUnguarded ==
  /\ stateIndex' = stateIndex - 1
  /\ last' = Call("undo", NULL, FALSE, stateIndex > 0)
  /\ trip' = IF trip.redos = 0 /\ trip.undos < Len(trip.pre)
             THEN [trip EXCEPT !.undos = @ + 1] ELSE NoTrip
  /\ UNCHANGED <<state, totalScore, frame, roll, DEV_MODE,
                 scoresCreated, hookRuns, gridScored>>

\* Wave.undo()
Undo ==
  /\ stateIndex' = IF stateIndex > 0 THEN stateIndex - 1 ELSE stateIndex
  /\ last' = Call("undo", NULL, FALSE, stateIndex > 0)
  /\ trip' = IF trip.redos = 0 /\ trip.undos < Len(trip.pre)
             THEN [trip EXCEPT !.undos = @ + 1] ELSE NoTrip
  /\ UNCHANGED <<state, totalScore, frame, roll, DEV_MODE,
                 scoresCreated, hookRuns, gridScored>>

\* Redo that scores the entry it moves to again instead of reusing its Score
RedoRecomputes ==
  /\ stateIndex' = IF stateIndex < Len(state) - 1 THEN stateIndex + 1 ELSE stateIndex
  /\ IF stateIndex < Len(state) - 1
     THEN /\ state' = [state EXCEPT ![stateIndex' + 1] =
                         Entry(@.grid, @.action, scoresCreated + 1)]
          /\ scoresCreated' = scoresCreated + 1
          /\ hookRuns' = hookRuns + Len(s.bonuses)
     ELSE UNCHANGED <<state, scoresCreated, hookRuns>>
  /\ last' = Call("redo", NULL, FALSE, stateIndex < Len(state) - 1)
  /\ trip' = IF trip.redos < trip.undos
             THEN [trip EXCEPT !.redos = @ + 1] ELSE NoTrip
  /\ UNCHANGED <<totalScore, frame, roll, DEV_MODE, gridScored>>

\* Redo without the test stateIndex < state.length - 1
RedoUnguarded ==
  /\ stateIndex' = stateIndex + 1
  /\ last' = Call("redo", NULL, FALSE, stateIndex < Len(state) - 1)
  /\ trip' = IF trip.redos < trip.undos
             THEN [trip EXCEPT !.redos = @ + 1] ELSE NoTrip
  /\ UNCHANGED <<state, totalScore, frame, roll, DEV_MODE,
                 scoresCreated, hookRuns, gridScored>>

\* Wave.redo()
Redo ==
  /\ stateIndex' = IF stateIndex < Len(state) - 1 THEN stateIndex + 1 ELSE stateIndex
  /\ last' = Call("redo", NULL, FALSE, stateIndex < Len(state) - 1)
  /\ trip' = IF trip.redos < trip.undos
             THEN [trip EXCEPT !.redos = @ + 1] ELSE NoTrip
  /\ UNCHANGED <<state, totalScore, frame, roll, DEV_MODE,
                 scoresCreated, hookRuns, gridScored>>

\* RerollFrom that drops only the redo tail (state.splice(stateIndex + 1))
RerollFromKeepsPast(r) ==
  IF r < s.maxRolls
  THEN /\ scoresCreated < MaxScores
       /\ roll' = r + 1
       /\ \E grid \in GridRandom(Cur.grid.rows, Cur.grid.cols) :
            Push(SubSeq(state, 1, stateIndex + 1), grid, NULL)
  ELSE /\ roll' = r
       /\ UNCHANGED <<state, stateIndex, scoresCreated, hookRuns>>

\* RerollFrom with the budget test off by one (roll <= maxRolls)
RerollFromOffByOne(r) ==
  IF r <= s.maxRolls
  THEN /\ scoresCreated < MaxScores
       /\ roll' = r + 1
       /\ \E grid \in GridRandom(Cur.grid.rows, Cur.grid.cols) :
            Push(<<>>, grid, NULL)
  ELSE /\ roll' = r
       /\ UNCHANGED <<state, stateIndex, scoresCreated, hookRuns>>

\* the body of Wave.reroll(), entered with this.roll = r
RerollFrom(r) ==
  IF r < s.maxRolls
  THEN /\ scoresCreated < MaxScores
       /\ roll' = r + 1
       /\ \E grid \in GridRandom(Cur.grid.rows, Cur.grid.cols) :
            Push(<<>>, grid, NULL)
  ELSE /\ roll' = r
       /\ UNCHANGED <<state, stateIndex, scoresCreated, hookRuns>>

\* Wave.reroll()
Reroll ==
  /\ RerollFrom(roll)
  /\ last' = Call("reroll", NULL, FALSE, roll < s.maxRolls)
  /\ trip' = NoTrip
  /\ UNCHANGED <<totalScore, frame, DEV_MODE, gridScored>>

\* Submit that refuses only a lost wave (status = "lose")
SubmitRefusesOnlyLose ==
  IF status = "lose"
  THEN /\ last' = Call("submit", NULL, TRUE, FALSE)
       /\ trip' = NoTrip
       /\ UNCHANGED <<state, stateIndex, totalScore, frame, roll, DEV_MODE,
                      scoresCreated, hookRuns, gridScored>>
  ELSE /\ totalScore' = totalScore + Total(Cur.score)
       /\ gridScored' = Append(gridScored,
                               [score |-> Cur.score.id, total |-> Total(Cur.score)])
       /\ frame' = frame + 1
       /\ IF frame' < s.maxFrames /\ (DEV_MODE \/ totalScore' < s.targetScore)
          THEN RerollFrom(-1)
          ELSE UNCHANGED <<state, stateIndex, roll, scoresCreated, hookRuns>>
       /\ last' = Call("submit", NULL, FALSE, TRUE)
       /\ trip' = NoTrip
       /\ UNCHANGED DEV_MODE

\* Submit without the status test
SubmitUnguarded ==
  /\ totalScore' = totalScore + Total(Cur.score)
  /\ gridScored' = Append(gridScored,
                          [score |-> Cur.score.id, total |-> Total(Cur.score)])
  /\ frame' = frame + 1
  /\ IF frame' < s.maxFrames /\ (DEV_MODE \/ totalScore' < s.targetScore)
     THEN RerollFrom(-1)
     ELSE UNCHANGED <<state, stateIndex, roll, scoresCreated, hookRuns>>
  /\ last' = Call("submit", NULL, status # "playing", TRUE)
  /\ trip' = NoTrip
  /\ UNCHANGED DEV_MODE

\* Submit that adds the score of the last history entry, not of the cursor's
SubmitScoresTip ==
  IF status # "playing"
  THEN /\ last' = Call("submit", NULL, TRUE, FALSE)
       /\ trip' = NoTrip
       /\ UNCHANGED <<state, stateIndex, totalScore, frame, roll, DEV_MODE,
                      scoresCreated, hookRuns, gridScored>>
  ELSE /\ totalScore' = totalScore + Total(state[Len(state)].score)
       /\ gridScored' = Append(gridScored,
                               [score |-> Cur.score.id, total |-> Total(Cur.score)])
       /\ frame' = frame + 1
       /\ IF frame' < s.maxFrames /\ (DEV_MODE \/ totalScore' < s.targetScore)
          THEN RerollFrom(-1)
          ELSE UNCHANGED <<state, stateIndex, roll, scoresCreated, hookRuns>>
       /\ last' = Call("submit", NULL, FALSE, TRUE)
       /\ trip' = NoTrip
       /\ UNCHANGED DEV_MODE

\* Submit that sets roll to 0, not -1, before its reroll
SubmitRollZero ==
  IF status # "playing"
  THEN /\ last' = Call("submit", NULL, TRUE, FALSE)
       /\ trip' = NoTrip
       /\ UNCHANGED <<state, stateIndex, totalScore, frame, roll, DEV_MODE,
                      scoresCreated, hookRuns, gridScored>>
  ELSE /\ totalScore' = totalScore + Total(Cur.score)
       /\ gridScored' = Append(gridScored,
                               [score |-> Cur.score.id, total |-> Total(Cur.score)])
       /\ frame' = frame + 1
       /\ IF frame' < s.maxFrames /\ (DEV_MODE \/ totalScore' < s.targetScore)
          THEN RerollFrom(0)
          ELSE UNCHANGED <<state, stateIndex, roll, scoresCreated, hookRuns>>
       /\ last' = Call("submit", NULL, FALSE, TRUE)
       /\ trip' = NoTrip
       /\ UNCHANGED DEV_MODE

\* Wave.submit()
Submit ==
  IF status # "playing"
  THEN /\ last' = Call("submit", NULL, TRUE, FALSE)
       /\ trip' = NoTrip
       /\ UNCHANGED <<state, stateIndex, totalScore, frame, roll, DEV_MODE,
                      scoresCreated, hookRuns, gridScored>>
  ELSE /\ totalScore' = totalScore + Total(Cur.score)
       /\ gridScored' = Append(gridScored,
                               [score |-> Cur.score.id, total |-> Total(Cur.score)])
       /\ frame' = frame + 1
       /\ IF frame' < s.maxFrames /\ (DEV_MODE \/ totalScore' < s.targetScore)
          THEN RerollFrom(-1)
          ELSE UNCHANGED <<state, stateIndex, roll, scoresCreated, hookRuns>>
       /\ last' = Call("submit", NULL, FALSE, TRUE)
       /\ trip' = NoTrip
       /\ UNCHANGED DEV_MODE

\* the operations on the Wave leave its settings and all else alone
Next ==
  \/ SetDevMode /\ UNCHANGED <<s, runVars, fnVars>>
  \/ Execute /\ UNCHANGED <<s, runVars, fnVars>>
  \/ Undo /\ UNCHANGED <<s, runVars, fnVars>>
  \/ Redo /\ UNCHANGED <<s, runVars, fnVars>>
  \/ Reroll /\ UNCHANGED <<s, runVars, fnVars>>
  \/ Submit /\ UNCHANGED <<s, runVars, fnVars>>

Spec == Init /\ [][Next]_vars

----------------------------------------------------------------------------
(* Properties of the Wave *)

\* C1: Action single-use. An execute(a, arg) call whose action index a already
\* appears in a history entry at position 0..cursor is rejected: the history,
\* the cursor and with them the current grid and score are what they were
\* before the call.
C1_ExecuteUsedRejected ==
  [][(last'.op = "execute" /\ ~hasAction(last'.action))
       => (state' = state /\ stateIndex' = stateIndex)]_vars

\* C2: Undo/redo round trip. After N executes followed by N undos the current
\* entry (grid and Score object) is the one that was current before the first of
\* these executes; after N further redos the history and the cursor are those
\* left by the N executes, with the same Score objects.
C2_UndoRedoRoundTrip ==
  /\ (trip.undos >= 1 /\ trip.redos = 0)
       => Cur = trip.pre[Len(trip.pre) - trip.undos + 1]
  /\ (trip.undos >= 1 /\ trip.redos = trip.undos)
       => (state = trip.tipState /\ stateIndex = trip.tipIndex)

\* two executes, two undos and two redos have been made in a row
C2_Witness == trip.undos = 2 /\ trip.redos = 2 /\ Len(trip.pre) >= 2

\* C3: undo() and redo() change nothing but the cursor: history, frame, roll,
\* totalScore are unchanged, no Score is built and no bonus hook runs; undo at
\* cursor 0 and redo at the last entry change nothing at all; the cursor is
\* always within [0, history.length - 1].
C3_UndoRedoOnlyCursor ==
  /\ [](stateIndex \in 0..(Len(state) - 1))
  /\ [][(last'.op \in {"undo", "redo"})
          => /\ UNCHANGED <<state, frame, roll, totalScore, scoresCreated,
                            hookRuns, gridScored>>
             /\ (last'.op = "undo" /\ stateIndex = 0) => stateIndex' = stateIndex
             /\ (last'.op = "undo" /\ stateIndex > 0) => stateIndex' = stateIndex - 1
             /\ (last'.op = "redo" /\ stateIndex = Len(state) - 1)
                  => stateIndex' = stateIndex
             /\ (last'.op = "redo" /\ stateIndex < Len(state) - 1)
                  => stateIndex' = stateIndex + 1]_vars

\* an undo has moved the cursor back to the first entry of a longer history
C3_Witness == last.op = "undo" /\ last.done /\ stateIndex = 0 /\ Len(state) >= 2

\* C4: submit() on a wave whose status is win or lose changes no state and
\* emits no onGridScored event.
C4_SubmitWhenOverNoChange ==
  [][(last'.op = "submit" /\ status # "playing")
       => UNCHANGED <<totalScore, frame, roll, state, stateIndex, gridScored>>]_vars

\* a submit was made on a finished wave and was refused
C4_Witness == last.op = "submit" /\ last.error /\ status # "playing"

RECURSIVE SumTotals(_)
SumTotals(events) ==
  IF events = <<>> THEN 0 ELSE Head(events).total + SumTotals(Tail(events))

\* C5: each submit() on a playing wave adds the total of the score at the
\* cursor to totalScore, adds 1 to frame and emits one onGridScored with that
\* score; so totalScore is the sum of the totals of the wave's onGridScored
\* events and frame is their number.
C5_SubmitAccounting ==
  /\ [](totalScore = SumTotals(gridScored) /\ frame = Len(gridScored))
  /\ [][(last'.op = "submit" /\ status = "playing")
          => /\ totalScore' = totalScore + Total(Cur.score)
             /\ frame' = frame + 1
             /\ gridScored' = Append(gridScored, [score |-> Cur.score.id,
                                                  total |-> Total(Cur.score)])]_vars

\* a grid was submitted with the cursor moved back by undo, and it scored
C5_Witness ==
  /\ last.op = "submit" /\ last.done /\ canRedo
  /\ gridScored[Len(gridScored)].score = Cur.score.id
  /\ gridScored[Len(gridScored)].total > 0

\* C6: Submit cascade with dev mode off. After a successful submit, if
\* frame < maxFrames and totalScore < targetScore then roll is 0 (the whole
\* re-roll budget is available), the history is exactly one fresh entry with no
\* action and the cursor is 0; otherwise history and cursor are left as they
\* were and the status is win or lose.
C6_SubmitCascade ==
  [][(last'.op = "submit" /\ status = "playing" /\ ~DEV_MODE)
       => IF frame' < s.maxFrames /\ totalScore' < s.targetScore
          THEN /\ roll' = 0
               /\ s.maxRolls - roll' = s.maxRolls
               /\ Len(state') = 1
               /\ state'[1].action = NULL
               /\ state'[1].score.id = scoresCreated + 1
               /\ scoresCreated' = scoresCreated + 1
               /\ stateIndex' = 0
          ELSE /\ state' = state
               /\ stateIndex' = stateIndex
               /\ status' \in {"win", "lose"}]_vars

\* a submit has cascaded into a fresh board while the wave goes on, dev mode off
C6_Witness ==
  /\ last.op = "submit" /\ last.done /\ ~DEV_MODE
  /\ frame >= 1 /\ frame < s.maxFrames /\ totalScore < s.targetScore
  /\ Len(state) = 1 /\ roll = 0

\* C7: a reroll() with budget left adds 1 to roll, discards the whole history
\* and leaves one entry (a fresh grid of the same rows and cols, no action) with
\* cursor 0; then every action index is available, canUndo and canRedo are
\* false, and frame and totalScore are unchanged.
C7_RerollWithBudget ==
  [][(last'.op = "reroll" /\ roll < s.maxRolls)
       => /\ roll' = roll + 1
          /\ Len(state') = 1
          /\ state'[1].action = NULL
          /\ state'[1].score.id = scoresCreated + 1
          /\ state'[1].grid.rows = Cur.grid.rows
          /\ state'[1].grid.cols = Cur.grid.cols
          /\ Len(state'[1].grid.cells) = Cur.grid.rows * Cur.grid.cols
          /\ stateIndex' = 0
          /\ \A a \in 0..(Len(s.actions) - 1) : hasAction(a)'
          /\ ~canUndo' /\ ~canRedo'
          /\ frame' = frame /\ totalScore' = totalScore]_vars

\* a reroll with budget left has been made
C7_Witness == last.op = "reroll" /\ last.done /\ roll = 1 /\ Len(state) = 1

\* C8: reroll() with the re-roll budget exhausted (roll >= maxRolls) is a
\* silent no-op: roll, history, cursor, frame and totalScore are unchanged and
\* no error is raised or logged.
C8_RerollExhaustedNoOp ==
  [][(last'.op = "reroll" /\ roll >= s.maxRolls)
       => /\ UNCHANGED <<roll, state, stateIndex, frame, totalScore>>
          /\ ~last'.error]_vars

\* a reroll was asked for with no budget left, on a history with an action done
C8_Witness ==
  last.op = "reroll" /\ ~last.done /\ roll >= s.maxRolls /\ Len(state) >= 2

\* C9: Status derivation. Dev mode off: win iff totalScore >= targetScore, lose
\* iff frame >= maxFrames and totalScore < targetScore, playing otherwise.
\* Dev mode on: win iff frame >= maxFrames, playing otherwise.
C9_StatusDerivation ==
  /\ ~DEV_MODE =>
       /\ (status = "win") <=> (totalScore >= s.targetScore)
       /\ (status = "lose") <=>
            (frame >= s.maxFrames /\ totalScore < s.targetScore)
       /\ (status = "playing") <=>
            (frame < s.maxFrames /\ totalScore < s.targetScore)
  /\ DEV_MODE =>
       /\ (status = "win") <=> (frame >= s.maxFrames)
       /\ (status = "playing") <=> (frame < s.maxFrames)

\* dev mode off and the wave is won with frames remaining
C9_Witness ==
  ~DEV_MODE /\ status = "win" /\ frame >= 1 /\ frame < s.maxFrames

\* C10: win and lose are terminal. With the dev-mode flag unchanged, a call made
\* when the status is win or lose leaves the status, frame and totalScore as
\* they are.
C10_Terminal ==
  [][(status # "playing" /\ DEV_MODE' = DEV_MODE)
       => (status' = status /\ frame' = frame /\ totalScore' = totalScore)]_vars

\* a reroll was carried out on a wave that is lost
C10_Witness == status = "lose" /\ last.op = "reroll" /\ last.done

----------------------------------------------------------------------------
(* The item catalog as Select.sample and Run read it (items.ts) *)

\* cap on the number of calls of Run.next one behaviour makes
MaxCalls == 5

\* limit: Infinity, above every count an inventory of the model reaches
Infinity == 1000

\* Object.values(Items), in registration order; priority is the registration
\* number of the item in items.ts
Items ==
  << [name |-> "swap", kind |-> "action", freq |-> "uncommon",
      freqMultiplier |-> 2, limit |-> Infinity, priority |-> 0],
     [name |-> "flip_y", kind |-> "action", freq |-> "rare",
      freqMultiplier |-> 2, limit |-> 1, priority |-> 3],
     [name |-> "square_s", kind |-> "pattern", freq |-> "common",
      freqMultiplier |-> 1, limit |-> Infinity, priority |-> 5],
     [name |-> "points_per_cell", kind |-> "bonus", freq |-> "common",
      freqMultiplier |-> 1, limit |-> Infinity, priority |-> 45],
     [name |-> "score_every_group", kind |-> "bonus", freq |-> "common",
      freqMultiplier |-> 1, limit |-> 1, priority |-> 46] >>

ItemNames == { Items[k].name : k \in 1..Len(Items) }

\* Items[name]
Item(name) == Items[CHOOSE k \in 1..Len(Items) : Items[k].name = name]

\* pattern("Square S", "xx/xx", 3, "common")
square_s == [name |-> "square_s", grid |-> Grid(2, 2, <<X, X, X, X>>), points |-> 3]

\* the Pattern object of a pattern item
PatternOf(name) == CASE name = "square_s" -> square_s

\* items.sort((a, b) => a.priority - b.priority): Array.prototype.sort is
\* stable, so an item goes behind the items of the same priority before it
RECURSIVE InsertByPriority(_, _)
InsertByPriority(sorted, name) ==
  IF sorted = <<>> THEN <<name>>
  ELSE IF Item(sorted[Len(sorted)]).priority <= Item(name).priority
       THEN Append(sorted, name)
       ELSE Append(InsertByPriority(SubSeq(sorted, 1, Len(sorted) - 1), name),
                   sorted[Len(sorted)])

RECURSIVE SortByPriority(_)
SortByPriority(names) ==
  IF names = <<>> THEN <<>>
  ELSE InsertByPriority(SortByPriority(SubSeq(names, 1, Len(names) - 1)),
                        names[Len(names)])

\* items.filter((i) => i.kind === kind)
OfKind(names, kind) == SelectSeq(names, LAMBDA n : Item(n).kind = kind)

----------------------------------------------------------------------------
(* sampleWeighted, class Select *)

\* selected: "skip"
SKIP == -2

\* items.reduce((c, i) => c + +(i.name === item.name), 0)
Held(inventory, name) ==
  Cardinality({ k \in 1..Len(inventory) : inventory[k] = name })

RECURSIVE SumWeights(_)
SumWeights(weights) ==
  IF weights = <<>> THEN 0 ELSE Head(weights) + SumWeights(Tail(weights))

\* the values of r = Math.random() * totalWeight that tell the outcomes of
\* sampleWeighted apart: with whole weights, the whole numbers of [0, total)
RandomR(totalWeight) == IF totalWeight = 0 THEN {0} ELSE 0..(totalWeight - 1)

\* the loop of sampleWeighted from position i (0-based) on
RECURSIVE SampleLoop(_, _, _, _)
SampleLoop(cands, weights, r, i) ==
  IF i >= Len(cands) THEN cands[Len(cands)]
  ELSE IF r < weights[i + 1] THEN cands[i + 1]
       ELSE SampleLoop(cands, weights, r - weights[i + 1], i + 1)

sampleWeighted(cands, weights, r) == SampleLoop(cands, weights, r, 0)

\* Candidates that may offer an item again
CandidatesRepeat(inventory, offers, only) ==
  SelectSeq(Items, LAMBDA item :
    /\ (only = "none" \/ item.kind = only)
    /\ Held(inventory, item.name) < item.limit)

\* Candidates without the test against item.limit
CandidatesNoLimit(inventory, offers, only) ==
  SelectSeq(Items, LAMBDA item :
    /\ (only = "none" \/ item.kind = only)
    /\ \A k \in 1..Len(offers) : offers[k] # item.name)

\* the candidates of one round of Select.sample
Candidates(inventory, offers, only) ==
  SelectSeq(Items, LAMBDA item :
    /\ (only = "none" \/ item.kind = only)
    /\ Held(inventory, item.name) < item.limit
    /\ \A k \in 1..Len(offers) : offers[k] # item.name)

Weights(cands, chance) ==
  [k \in 1..Len(cands) |-> chance[cands[k].freq] * cands[k].freqMultiplier]

\* Select.sample from round n on: every list of offers the draws can give
RECURSIVE SampleFrom(_, _, _, _, _, _)
SampleFrom(inventory, offers, n, count, chance, only) ==
  IF n >= count THEN {offers}
  ELSE LET cands == Candidates(inventory, offers, only)
           weights == Weights(cands, chance)
       IN  IF Len(cands) = 0 THEN {offers}
           ELSE UNION { SampleFrom(inventory,
                          Append(offers, sampleWeighted(cands, weights, r).name),
                          n + 1, count, chance, only)
                        : r \in RandomR(SumWeights(weights)) }

\* Select.sample(items, count, chance, only): the offers of the possible Selects
Sample(inventory, count, chance, only) ==
  SampleFrom(inventory, <<>>, 0, count, chance, only)

\* new Select(items, offers)
Select(offers) == [phase |-> "select", offers |-> offers, selected |-> NULL]

----------------------------------------------------------------------------
(* class Run *)

\* the Chance records of the levels
likelihoodStart == [common |-> 4, uncommon |-> 1, rare |-> 0]
likelihoodEnd == [common |-> 1, uncommon |-> 2, rare |-> 2]

\* the RunSettings the Run of SpecRun is constructed with
runSettings ==
  [items |-> <<"score_every_group", "swap">>,
   schedule |-> << [type |-> "select", chance |-> likelihoodStart, only |-> "none"],
                   [type |-> "wave", targetScore |-> 1],
                   [type |-> "select", chance |-> likelihoodEnd, only |-> "bonus"] >>,
   maxFrames |-> 1, maxRolls |-> 1, gridRows |-> 1, gridCols |-> 2,
   offers |-> 2]

schedule == runSettings.schedule

\* the fields of the Wave while the Run has not constructed one
NoSettings == [targetScore |-> 0, maxFrames |-> 0, maxRolls |-> 0,
               gridRows |-> 0, gridCols |-> 0,
               patterns |-> <<>>, actions |-> <<>>, bonuses |-> <<>>]

WaveExists == Len(state) > 0

\* a call on the AchievementTracker
Event(ev, arg) == [ev |-> ev, arg |-> arg]

\* new RunOutcome(result), as `ret` records it
Outcome(result) == [kind |-> "outcome", result |-> result, error |-> FALSE]

\* Run.totalWaves()
totalWaves ==
  Cardinality({ i \in 1..Len(schedule) : schedule[i].type = "wave" })

\* Run.waveCount(): the loop reads schedule[i].type for every i <= phaseIndex,
\* and schedule[i] is undefined for i >= schedule.length (a TypeError)
waveCount ==
  IF phaseIndex >= Len(schedule)
  THEN [throws |-> TRUE, value |-> NULL]
  ELSE [throws |-> FALSE,
        value |-> Cardinality({ i \in 0..phaseIndex :
                                  schedule[i + 1].type = "wave" })]

\* new Run(s, level)
RunInit ==
  /\ items = SortByPriority(runSettings.items)
  /\ phaseIndex = -1
  /\ emitted = <<Event("onRunStart", "")>>
  /\ select = NoSelect
  /\ ret = NoRet
  /\ rcall = NoCall
  /\ s = NoSettings
  /\ state = <<>>
  /\ stateIndex = 0
  /\ totalScore = 0
  /\ frame = 0
  /\ roll = 0
  /\ DEV_MODE = FALSE
  /\ scoresCreated = 0
  /\ hookRuns = 0
  /\ gridScored = <<>>
  /\ last = Call("none", NULL, FALSE, TRUE)
  /\ trip = NoTrip
  /\ input = NoInput
  /\ output = NoOutput

\* new W.Wave(ws), by Run.next
NewWave(ws) ==
  /\ s' = ws
  /\ \E grid \in GridRandom(ws.gridRows, ws.gridCols) :
       state' = <<Entry(grid, NULL, 1)'>>
  /\ stateIndex' = 0
  /\ totalScore' = 0
  /\ frame' = 0
  /\ roll' = 0
  /\ scoresCreated' = 1
  /\ hookRuns' = Len(ws.bonuses)
  /\ gridScored' = <<>>
  /\ last' = Call("new", NULL, FALSE, TRUE)
  /\ trip' = NoTrip
  /\ UNCHANGED DEV_MODE

\* the WaveSettings Run.next builds from the inventory and a wave phase
WaveSettingsOf(inventory, phase) ==
  [patterns |-> [k \in 1..Len(OfKind(inventory, "pattern")) |->
                   PatternOf(OfKind(inventory, "pattern")[k])],
   actions |-> OfKind(inventory, "action"),
   bonuses |-> OfKind(inventory, "bonus"),
   gridRows |-> runSettings.gridRows,
   gridCols |-> runSettings.gridCols,
   targetScore |-> phase.targetScore,
   maxFrames |-> runSettings.maxFrames,
   maxRolls |-> runSettings.maxRolls]

\* the lastPhase arguments of Run.next: none, the Select or the Wave the Run
\* handed out last, or a RunOutcome
LastPhases ==
  {"undefined", "outcome"}
    \cup (IF select.phase = "select" THEN {"select"} ELSE {})
    \cup (IF WaveExists THEN {"wave"} ELSE {})

\* PhaseAt reading the descriptor before the cursor
PhaseAtPrev(i) == schedule[IF i > 0 THEN i ELSE 1]

\* this.s.schedule[i]
PhaseAt(i) == schedule[i + 1]

\* MustProvide that never asks for a lastPhase
MustProvideNever(lastPhase) == FALSE

\* Run.next, lines 182-185: a call after the first needs a lastPhase
MustProvide(lastPhase) == phaseIndex >= 0 /\ lastPhase = "undefined"

\* WaveLost that takes no wave for lost
WaveLostNever == FALSE

\* a Wave that is not won counts as lost
WaveLostUnlessWon == status # "win"

\* Run.next, line 201: lastPhase.status === "lose"
WaveLost == status = "lose"

\* Collect without the sort
CollectUnsorted(inventory, selectedItem) == Append(inventory, selectedItem)

\* Run.next, lines 192-193: this.items.push(selectedItem); this.items.sort(...)
Collect(inventory, selectedItem) == SortByPriority(Append(inventory, selectedItem))

\* Run.next, lines 186-206: what the call does with lastPhase before it moves on
Resolve(lastPhase) ==
  LET mismatch == lastPhase # PhaseAt(phaseIndex).type
  IN  CASE lastPhase = "select" ->
             IF select.selected # NULL /\ select.selected # SKIP
             THEN LET selectedItem == select.offers[select.selected + 1]
                  IN  [items |-> Collect(items, selectedItem),
                       emitted |-> <<Event("onItemCollected", selectedItem)>>,
                       lose |-> FALSE, error |-> mismatch]
             ELSE [items |-> items, emitted |-> <<>>,
                   lose |-> FALSE, error |-> mismatch]
        [] lastPhase = "wave" ->
             [items |-> items, emitted |-> <<Event("onWaveComplete", "wave")>>,
              lose |-> WaveLost,
              error |-> mismatch \/ status = "playing"]
        [] OTHER ->
             [items |-> items, emitted |-> <<>>, lose |-> FALSE, error |-> mismatch]

\* what `rcall` records of a call; held is the kind of phase the last
\* returning call of next handed out, outcome the result of that RunOutcome
RunCall(op, lastPhase, isNext, inOrder, held, outcome) ==
  [op |-> op, lastPhase |-> lastPhase,
   nexts |-> rcall.nexts + (IF isNext THEN 1 ELSE 0),
   inOrder |-> inOrder, held |-> held, outcome |-> outcome]

\* the caller passes back the phase it was handed, once that is complete
InOrder(lastPhase) ==
  /\ rcall.inOrder
  /\ CASE rcall.held = "none" -> lastPhase = "undefined"
       [] rcall.held = "select" -> lastPhase = "select" /\ select.selected # NULL
       [] rcall.held = "wave" -> lastPhase = "wave" /\ status = "win"
       [] OTHER -> FALSE

\* Run.next throws: nothing of the Run has changed
Throws(lastPhase, error) ==
  /\ ret' = [kind |-> "throw", result |-> error, error |-> FALSE]
  /\ emitted' = <<>>
  /\ rcall' = RunCall("next", lastPhase, TRUE, InOrder(lastPhase), rcall.held,
                     rcall.outcome)
  /\ UNCHANGED <<items, phaseIndex, select, DEV_MODE, s, state, stateIndex,
                 totalScore, frame, roll, scoresCreated, hookRuns, gridScored,
                 last, trip>>

\* Run.next, lines 209-231: move to the next phase and construct it
Advance(lastPhase, r) ==
  /\ phaseIndex' = phaseIndex + 1
  /\ items' = r.items
  /\ IF phaseIndex' >= Len(schedule)
     THEN /\ ret' = [Outcome("win") EXCEPT !.error = r.error]
          /\ emitted' = Append(r.emitted, Event("onRunEnd", "win"))
          /\ rcall' = RunCall("next", lastPhase, TRUE, InOrder(lastPhase),
                               "outcome", "win")
          /\ UNCHANGED <<select, DEV_MODE, s, state, stateIndex, totalScore,
                         frame, roll, scoresCreated, hookRuns, gridScored,
                         last, trip>>
     ELSE LET phase == PhaseAt(phaseIndex')
          IN  /\ emitted' = r.emitted
              /\ ret' = [kind |-> phase.type, result |-> "", error |-> r.error]
              /\ rcall' = RunCall("next", lastPhase, TRUE, InOrder(lastPhase),
                                   phase.type, "")
              /\ IF phase.type = "select"
                 THEN /\ \E offers \in Sample(items', runSettings.offers,
                                              phase.chance, phase.only) :
                           select' = Select(offers)
                      /\ UNCHANGED <<DEV_MODE, s, state, stateIndex, totalScore,
                                     frame, roll, scoresCreated, hookRuns,
                                     gridScored, last, trip>>
                 ELSE /\ NewWave(WaveSettingsOf(items', phase))
                      /\ UNCHANGED select

\* Run.next(lastPhase)
RunNext ==
  \E lastPhase \in LastPhases :
    /\ rcall.nexts < MaxCalls
    /\ IF MustProvide(lastPhase)
       THEN Throws(lastPhase, "Error")
       ELSE IF phaseIndex >= Len(schedule)
       THEN Throws(lastPhase, "TypeError")
       ELSE IF phaseIndex < 0
       THEN Advance(lastPhase, [items |-> items, emitted |-> <<>>,
                                lose |-> FALSE, error |-> FALSE])
       ELSE LET r == Resolve(lastPhase)
            IN  IF r.lose
                THEN /\ items' = r.items
                     /\ ret' = [Outcome("lose") EXCEPT !.error = r.error]
                     /\ emitted' = Append(r.emitted, Event("onRunEnd", "lose"))
                     /\ rcall' = RunCall("next", lastPhase, TRUE,
                                         InOrder(lastPhase), "outcome", "lose")
                     /\ UNCHANGED <<phaseIndex, select, DEV_MODE, s, state,
                                    stateIndex, totalScore, frame, roll,
                                    scoresCreated, hookRuns, gridScored,
                                    last, trip>>
                ELSE Advance(lastPhase, r)
    /\ UNCHANGED fnVars

\* ForceWin that emits nothing
ForceWinSilent ==
  /\ ret' = Outcome("win")
  /\ emitted' = <<>>
  /\ rcall' = RunCall("forceWin", "none", FALSE, rcall.inOrder, rcall.held,
                      rcall.outcome)
  /\ UNCHANGED <<items, phaseIndex, select, DEV_MODE, s, state, stateIndex,
                 totalScore, frame, roll, scoresCreated, hookRuns, gridScored,
                 last, trip, fnVars>>

\* Run.forceWin()
ForceWin ==
  /\ ret' = Outcome("win")
  /\ emitted' = <<Event("onRunEnd", "win")>>
  /\ rcall' = RunCall("forceWin", "none", FALSE, rcall.inOrder, rcall.held,
                      rcall.outcome)
  /\ UNCHANGED <<items, phaseIndex, select, DEV_MODE, s, state, stateIndex,
                 totalScore, frame, roll, scoresCreated, hookRuns, gridScored,
                 last, trip, fnVars>>

\* the player picks an offer or skips, while the Select is the phase on
\* screen: select.selected = index | "skip"
Choose ==
  /\ rcall.held = "select"
  /\ \E selected \in (0..(Len(select.offers) - 1)) \cup {SKIP} :
       /\ selected # select.selected
       /\ select' = [select EXCEPT !.selected = selected]
  /\ UNCHANGED <<items, phaseIndex, ret, emitted, rcall, DEV_MODE, s, state,
                 stateIndex, totalScore, frame, roll, scoresCreated, hookRuns,
                 gridScored, last, trip, fnVars>>

\* the Run, the player's choices and the play of the Wave while it is the
\* phase on screen
RunStep ==
  \/ RunNext
  \/ ForceWin
  \/ Choose
  \/ rcall.held = "wave" /\ Submit /\ UNCHANGED <<s, runVars, fnVars>>
  \/ rcall.held = "wave" /\ Reroll /\ UNCHANGED <<s, runVars, fnVars>>

SpecRun == RunInit /\ [][RunStep]_vars

----------------------------------------------------------------------------
(* Select.sample and findMatches applied to drawn arguments *)

\* inventories hold up to MaxInv items, Select.sample is asked for up to
\* MaxCount offers, the grids searched have up to MaxCols columns
MaxInv == 2
MaxCount == 2
MaxCols == 2

\* no Wave and no Run
NoWaveNoRun ==
  /\ s = NoSettings
  /\ state = <<>>
  /\ stateIndex = 0
  /\ totalScore = 0
  /\ frame = 0
  /\ roll = 0
  /\ DEV_MODE = FALSE
  /\ scoresCreated = 0
  /\ hookRuns = 0
  /\ gridScored = <<>>
  /\ last = Call("none", NULL, FALSE, TRUE)
  /\ trip = NoTrip
  /\ items = <<>>
  /\ phaseIndex = -1
  /\ select = NoSelect
  /\ ret = NoRet
  /\ emitted = <<>>
  /\ rcall = NoCall

\* the inventories a Run can hold: item names in order of priority
Inventories ==
  { SortByPriority(names) :
      names \in UNION { [1..n -> ItemNames] : n \in 0..MaxInv } }

\* Chance records: every weight 0 or 1, and the two records of the levels
Chances ==
  [{"common", "uncommon", "rare"} -> {0, 1}] \cup {likelihoodStart, likelihoodEnd}

\* the kind filter `only`, "none" for undefined
Only == {"none", "action", "pattern", "bonus"}

\* arguments for Select.sample(items, count, chance, only)
SampleInit ==
  /\ NoWaveNoRun
  /\ input \in [fn : {"sample"}, items : Inventories, count : 0..MaxCount,
                chance : Chances, only : Only]
  /\ output = NoOutput

\* Select.sample(items, count, chance, only) returns a Select with offers
ApplySample ==
  /\ input.fn = "sample"
  /\ ~output.done
  /\ \E offers \in Sample(input.items, input.count, input.chance, input.only) :
       output' = [done |-> TRUE, value |-> offers]
  /\ UNCHANGED <<input, state, stateIndex, totalScore, frame, roll, DEV_MODE,
                 scoresCreated, hookRuns, gridScored, last, trip, s, runVars>>

SpecSample == SampleInit /\ [][ApplySample]_vars

\* the grids of the given sizes, every cell O, X or W
Grids(rowsSet, colsSet) ==
  UNION { { Grid(rows, cols, cells) : cells \in [1..(rows * cols) -> {O, X, W}] }
          : <<rows, cols>> \in rowsSet \X colsSet }

\* the pattern and the grid of the test "Pattern find"
testPattern == [name |-> "test", grid |-> Grid(2, 2, <<X, O, O, X>>), points |-> 0]
testGrid == Grid(3, 4, <<X, X, X, O, O, X, O, X, X, O, X, O>>)

\* arguments for findMatches(pattern, grid): patterns of up to 2 x 2 cells on
\* grids of up to 2 rows, and the pair of the test
MatchInit ==
  /\ NoWaveNoRun
  /\ \/ input \in [fn : {"findMatches"},
                   pattern : { [name |-> "p", grid |-> pgrid, points |-> 0] :
                               pgrid \in Grids(1..2, 1..2) },
                   grid : Grids(1..2, 1..MaxCols)]
     \/ input = [fn |-> "findMatches", pattern |-> testPattern, grid |-> testGrid]
  /\ output = NoOutput

\* findMatches(pattern, grid) returns the list of anchors
ApplyMatch ==
  /\ input.fn = "findMatches"
  /\ ~output.done
  /\ output' = [done |-> TRUE, value |-> findMatches(input.pattern, input.grid)]
  /\ UNCHANGED <<input, state, stateIndex, totalScore, frame, roll, DEV_MODE,
                 scoresCreated, hookRuns, gridScored, last, trip, s, runVars>>

SpecMatch == MatchInit /\ [][ApplyMatch]_vars

----------------------------------------------------------------------------
(* Grid.parse and the patterns of the catalog (items.ts) *)

\* a string is held as the sequence of its characters
\* s.trim(): the string without the blanks at its two ends
RECURSIVE Trim(_)
Trim(str) ==
  IF str = <<>> THEN str
  ELSE IF Head(str) = " " THEN Trim(Tail(str))
  ELSE IF str[Len(str)] = " " THEN Trim(SubSeq(str, 1, Len(str) - 1))
  ELSE str

\* str.split("/"): the lines, with line `cur` being read
RECURSIVE Split(_, _)
Split(str, cur) ==
  IF str = <<>> THEN <<cur>>
  ELSE IF Head(str) = "/" THEN <<cur>> \o Split(Tail(str), <<>>)
  ELSE Split(Tail(str), Append(cur, Head(str)))

\* Grid.parse throws: rows of different lengths or a character other than x - #
ParseThrows(str) ==
  LET lines == Split(Trim(str), <<>>)
  IN  \/ \E k \in 1..Len(lines) : Len(lines[k]) # Len(lines[1])
      \/ \E k \in 1..Len(lines) : \E j \in 1..Len(lines[k]) :
            lines[k][j] \notin {"x", "-", "#"}

\* the cell of a character of a grid string
ParseCell(ch) == CASE ch = "x" -> X [] ch = "-" -> O [] ch = "#" -> W

RECURSIVE ParseLines(_)
ParseLines(lines) ==
  IF lines = <<>> THEN <<>>
  ELSE [j \in 1..Len(Head(lines)) |-> ParseCell(Head(lines)[j])]
         \o ParseLines(Tail(lines))

\* Grid.parse(str), for a string it does not throw on
Parse(str) ==
  LET lines == Split(Trim(str), <<>>)
  IN  Grid(Len(lines), Len(lines[1]), ParseLines(lines))

\* the calls pattern(title, gridStr, points, freq) of items.ts, in order; name
\* is the title in lower case with _ for every run of other characters
PatternCalls ==
  <<
     [title |-> "Square S", name |-> "square_s",
      gridStr |-> <<"x", "x", "/", "x", "x">>,
      points |-> 3, freq |-> "common"],
     [title |-> "Square M", name |-> "square_m",
      gridStr |-> <<"x", "x", "x", "/", "x", "x", "x", "/", "x", "x", "x">>,
      points |-> 30, freq |-> "common"],
     [title |-> "Square L", name |-> "square_l",
      gridStr |-> <<"x", "x", "x", "x", "/", "x", "x", "x", "x", "/", "x", "x", "x", "x", "/", "x", "x", "x", "x">>,
      points |-> 300, freq |-> "rare"],
     [title |-> "Square XL", name |-> "square_xl",
      gridStr |-> <<"x", "x", "x", "x", "x", "/", "x", "x", "x", "x", "x", "/", "x", "x", "x", "x", "x", "/", "x", "x", "x", "x", "x", "/", "x", "x", "x", "x", "x">>,
      points |-> 1200, freq |-> "rare"],
     [title |-> "Line", name |-> "line",
      gridStr |-> <<"x", "x", "x", "x">>,
      points |-> 3, freq |-> "uncommon"],
     [title |-> "Line L", name |-> "line_l",
      gridStr |-> <<"x", "x", "x", "x", "x", "x">>,
      points |-> 10, freq |-> "uncommon"],
     [title |-> "Line XXL", name |-> "line_xxl",
      gridStr |-> <<"x", "x", "x", "x", "x", "x", "x", "x", "x">>,
      points |-> 230, freq |-> "rare"],
     [title |-> "Column", name |-> "column",
      gridStr |-> <<"x", "/", "x", "/", "x", "/", "x">>,
      points |-> 3, freq |-> "uncommon"],
     [title |-> "Column L", name |-> "column_l",
      gridStr |-> <<"x", "/", "x", "/", "x", "/", "x", "/", "x", "/", "x">>,
      points |-> 10, freq |-> "uncommon"],
     [title |-> "Column XXL", name |-> "column_xxl",
      gridStr |-> <<"x", "/", "x", "/", "x", "/", "x", "/", "x", "/", "x", "/", "x", "/", "x", "/", "x">>,
      points |-> 230, freq |-> "rare"],
     [title |-> "Rhode Island Z", name |-> "rhode_island_z",
      gridStr |-> <<"-", "x", "x", "/", "x", "x", "-">>,
      points |-> 14, freq |-> "common"],
     [title |-> "Cleveland Z", name |-> "cleveland_z",
      gridStr |-> <<"x", "x", "-", "/", "-", "x", "x">>,
      points |-> 14, freq |-> "common"],
     [title |-> "Letter L", name |-> "letter_l",
      gridStr |-> <<"x", "-", "/", "x", "-", "/", "x", "x">>,
      points |-> 14, freq |-> "common"],
     [title |-> "Letter C", name |-> "letter_c",
      gridStr |-> <<"x", "x", "/", "x", "-", "/", "x", "x">>,
      points |-> 14, freq |-> "uncommon"],
     [title |-> "Thumbs Up", name |-> "thumbs_up",
      gridStr |-> <<"-", "x", "/", "x", "x", "/", "x", "x">>,
      points |-> 14, freq |-> "uncommon"],
     [title |-> "Plus", name |-> "plus",
      gridStr |-> <<"-", "x", "-", "/", "x", "x", "x", "/", "-", "x", "-">>,
      points |-> 50, freq |-> "common"],
     [title |-> "Box", name |-> "box",
      gridStr |-> <<"x", "x", "x", "/", "x", "-", "x", "/", "x", "x", "x">>,
      points |-> 50, freq |-> "common"],
     [title |-> "Heli Pad", name |-> "heli_pad",
      gridStr |-> <<"x", "-", "x", "/", "x", "x", "x", "/", "x", "-", "x">>,
      points |-> 50, freq |-> "common"],
     [title |-> "T", name |-> "t",
      gridStr |-> <<"x", "x", "x", "/", "-", "x", "-", "/", "-", "x", "-">>,
      points |-> 70, freq |-> "uncommon"],
     [title |-> "Four", name |-> "four",
      gridStr |-> <<"x", "-", "x", "/", "x", "x", "x", "/", "-", "-", "x">>,
      points |-> 70, freq |-> "uncommon"],
     [title |-> "B2", name |-> "b2",
      gridStr |-> <<"x", "x", "x", "/", "-", "x", "x", "/", "-", "-", "x">>,
      points |-> 90, freq |-> "rare"],
     [title |-> "R pentomino", name |-> "r_pentomino",
      gridStr |-> <<"-", "x", "x", "/", "x", "x", "-", "/", "-", "x", "-">>,
      points |-> 90, freq |-> "rare"],
     [title |-> "Big I", name |-> "big_i",
      gridStr |-> <<"x", "x", "x", "/", "-", "x", "-", "/", "-", "x", "-", "/", "x", "x", "x">>,
      points |-> 400, freq |-> "uncommon"],
     [title |-> "Big G", name |-> "big_g",
      gridStr |-> <<"x", "x", "x", "/", "x", "-", "-", "/", "x", "-", "x", "/", "x", "x", "x">>,
      points |-> 400, freq |-> "uncommon"],
     [title |-> "Big S", name |-> "big_s",
      gridStr |-> <<"x", "x", "/", "x", "-", "/", "x", "x", "/", "-", "x", "/", "x", "x">>,
      points |-> 170, freq |-> "rare"],
     [title |-> "Big E", name |-> "big_e",
      gridStr |-> <<"x", "x", "/", "x", "-", "/", "x", "x", "/", "x", "-", "/", "x", "x">>,
      points |-> 170, freq |-> "rare"],
     [title |-> "Pyramid", name |-> "pyramid",
      gridStr |-> <<"-", "-", "x", "-", "-", "/", "-", "x", "x", "x", "-", "/", "x", "x", "x", "x", "x">>,
      points |-> 225, freq |-> "uncommon"],
     [title |-> "Pinwheel", name |-> "pinwheel",
      gridStr |-> <<"-", "-", "x", "-", "/", "x", "x", "x", "-", "/", "-", "x", "x", "x", "/", "-", "x", "-", "-">>,
      points |-> 1500, freq |-> "uncommon"] >>

\* the registration number of the first pattern: the actions come before
FirstPatternPriority == 5

\* pattern(title, gridStr, points, freq): the Pattern item that call k registers
PatternItem(k) ==
  LET call == PatternCalls[k]
  IN  [kind |-> "pattern", name |-> call.name, title |-> call.title,
       grid |-> Parse(call.gridStr), points |-> call.points,
       freq |-> call.freq, freqMultiplier |-> 1, limit |-> Infinity,
       priority |-> FirstPatternPriority + k - 1]

\* the pattern items of the catalog
Patterns == { PatternItem(k) : k \in 1..Len(PatternCalls) }

----------------------------------------------------------------------------
(* Grid.getComponents applied to drawn grids *)

\* arguments for grid.getComponents(): grids of up to 3 rows and MaxCols
\* columns, the grid of the test and the grids of the catalog's patterns
CompInit ==
  /\ NoWaveNoRun
  /\ input \in [fn : {"getComponents"},
                grid : Grids(1..3, 1..MaxCols) \cup {testGrid}
                         \cup { pattern.grid : pattern \in Patterns }]
  /\ output = NoOutput

\* grid.getComponents() returns {components, cellToComponent}
ApplyComponents ==
  /\ input.fn = "getComponents"
  /\ ~output.done
  /\ output' = [done |-> TRUE, value |-> GetComponents(input.grid)]
  /\ UNCHANGED <<input, state, stateIndex, totalScore, frame, roll, DEV_MODE,
                 scoresCreated, hookRuns, gridScored, last, trip, s, runVars>>

SpecComp == CompInit /\ [][ApplyComponents]_vars

----------------------------------------------------------------------------
(* Score.create and the bonus hooks applied to drawn grids *)

\* pattern("B2", "xxx/-xx/--x", 90, "rare")
b2 == CHOOSE pattern \in Patterns : pattern.name = "b2"

\* a pattern template with Wildcard cells, as Grid.parse reads "x#/#x"
wild == [name |-> "wild", grid |-> Parse(<<"x", "#", "/", "#", "x">>),
         points |-> 1]

\* the pattern lists of the Waves scored
PatternLists ==
  { <<>>, <<pair>>, <<square_s>>, <<pair, square_s>>, <<b2>>, <<wild>> }

\* the bonus lists of the Waves scored: none, one bonus, or two bonuses in
\* either order
BonusPairs ==
  { <<"mult_flat_common", "mult_no_edges">>,
    <<"points_per_cell", "score_every_group">>,
    <<"gpoints_flat_common", "gmult_flat_common">>,
    <<"ppoints_flat_common", "mult_flat_common">>,
    <<"points_per_cell", "points_per_cell">> }

BonusLists ==
  {<<>>} \cup { <<b>> : b \in UNION { {p[1], p[2]} : p \in BonusPairs } }
         \cup BonusPairs \cup { <<p[2], p[1]>> : p \in BonusPairs }

\* the grids scored: the small grids, a grid whose B2 match has a Wildcard
\* under an Empty corner of the pattern, and grids with a group that touches
\* no edge
ScoreGrids ==
  Grids(1..2, 1..MaxCols)
    \cup { Parse(<<"x", "x", "x", "/", "-", "x", "x", "/", "#", "-", "x">>),
           Parse(<<"x", "x", "x", "/", "-", "x", "x", "/", "-", "-", "x">>),
           Parse(<<"-", "-", "-", "/", "-", "x", "-", "/", "-", "-", "-">>),
           Parse(<<"x", "-", "-", "/", "-", "-", "-", "/", "-", "x", "x">>) }

\* the item lists a Run is constructed with, in any order of acquisition: no
\* item more often than its limit
Acquired ==
  { inv \in UNION { [1..n -> ItemNames] : n \in 0..MaxInv } :
      \A name \in ItemNames :
        Cardinality({ k \in 1..Len(inv) : inv[k] = name }) <= Item(name).limit }

ScoreInit ==
  /\ NoWaveNoRun
  /\ \/ input \in [fn : {"push"}, grid : ScoreGrids,
                   patterns : PatternLists, bonuses : BonusLists]
     \/ input \in [fn : {"next"}, items : Acquired,
                   grid : GridRandom(runSettings.gridRows, runSettings.gridCols)]
  /\ output = NoOutput

\* the Score that Wave.push builds for a grid: Score.create, then the hooks
Pushed(ws, grid) ==
  [bonuses |-> ws.bonuses,
   patterns |-> ws.patterns,
   created |-> ScoreCreate(grid, ws.patterns, 1),
   score |-> RunBonuses(ws.bonuses, ScoreCreate(grid, ws.patterns, 1), grid)]

\* Wave.push(grid, null) on a Wave with the drawn patterns and bonuses
ApplyPush ==
  /\ input.fn = "push"
  /\ ~output.done
  /\ output' = [done |-> TRUE,
                value |-> Pushed([patterns |-> input.patterns,
                                  bonuses |-> input.bonuses], input.grid)]
  /\ UNCHANGED <<input, state, stateIndex, totalScore, frame, roll, DEV_MODE,
                 scoresCreated, hookRuns, gridScored, last, trip, s, runVars>>

\* new Run(s, level) with the drawn items, then the Wave that Run.next
\* constructs for a wave phase, whose constructor pushes the random grid
ApplyNext ==
  /\ input.fn = "next"
  /\ ~output.done
  /\ output' = [done |-> TRUE,
                value |-> Pushed(WaveSettingsOf(SortByPriority(input.items),
                                                schedule[2]),
                                 input.grid)]
  /\ UNCHANGED <<input, state, stateIndex, totalScore, frame, roll, DEV_MODE,
                 scoresCreated, hookRuns, gridScored, last, trip, s, runVars>>

SpecScore == ScoreInit /\ [][ApplyPush \/ ApplyNext]_vars

----------------------------------------------------------------------------
(* The actions of the catalog applied to drawn grids *)

\* the names of the action(...) calls of the catalog
ActionNames == {"swap", "wildcard", "shift", "flip_y", "gravity"}

\* the grids the actions are executed on: up to 2 rows and MaxCols columns,
\* and the columns of 3 rows, where up and down differ
ActionGrids == Grids(1..2, 1..MaxCols) \cup Grids({3}, {1})

ActionInit ==
  /\ NoWaveNoRun
  /\ input \in UNION { [fn : {"execute"}, action : {action}, grid : {grid},
                        arg : Args(action, grid)] :
                       <<action, grid>> \in ActionNames \X ActionGrids }
  /\ output = NoOutput

\* action.execute(grid, arg): the Grid returned, and the cells of the
\* argument grid when the call returns
ApplyAction ==
  /\ input.fn = "execute"
  /\ ~output.done
  /\ output' = [done |-> TRUE,
                value |-> [result |-> execute(input.action, input.grid, input.arg),
                           cells |-> Body(input.action, input.grid, input.arg).grid]]
  /\ UNCHANGED <<input, state, stateIndex, totalScore, frame, roll, DEV_MODE,
                 scoresCreated, hookRuns, gridScored, last, trip, s, runVars>>

SpecAction == ActionInit /\ [][ApplyAction]_vars

----------------------------------------------------------------------------
(* Properties of the Run *)

\* the step is a call of Run.next
NextCalled == rcall'.op = "next" /\ rcall'.nexts = rcall.nexts + 1

\* the step is a call of Run.forceWin
ForceWinCalled == rcall'.op = "forceWin" /\ rcall.op # "forceWin"

\* the number of events ev(arg) in a list of emitted events
Emits(events, ev, arg) ==
  Cardinality({ k \in 1..Len(events) : events[k] = Event(ev, arg) })

\* the number of events ev in a list of emitted events, whatever the argument
EmitsAny(events, ev) ==
  Cardinality({ k \in 1..Len(events) : events[k].ev = ev })

\* the Run is at a phase of its schedule
AtPhase == phaseIndex >= 0 /\ phaseIndex < Len(schedule)

\* C11: Run short-circuit on loss. When Run.next is called with the current
\* Wave (the Run is at a wave phase) and the status of that wave is lose, the
\* call returns Outcome(lose) and emits onRunEnd(run, lose) once, though phases
\* of the schedule remain; the call constructs no Select and no Wave, does not
\* move the cursor and leaves the inventory as it was.
C11_LossShortCircuits ==
  [][(/\ NextCalled
      /\ rcall'.lastPhase = "wave"
      /\ AtPhase
      /\ PhaseAt(phaseIndex).type = "wave"
      /\ status = "lose")
     => (/\ ret'.kind = "outcome"
         /\ ret'.result = "lose"
         /\ Emits(emitted', "onRunEnd", "lose") = 1
         /\ EmitsAny(emitted', "onRunEnd") = 1
         /\ select' = select
         /\ state' = state
         /\ s' = s
         /\ phaseIndex' = phaseIndex
         /\ items' = items)]_vars

\* a lost wave was passed back at its own phase, with a phase still to come
C11_Witness ==
  /\ rcall.op = "next"
  /\ rcall.lastPhase = "wave"
  /\ ret.kind = "outcome"
  /\ ret.result = "lose"
  /\ ~ret.error
  /\ phaseIndex = 1
  /\ phaseIndex < Len(schedule) - 1
  /\ status = "lose"

\* C12: Schedule progression. While the caller passes back each phase it was
\* handed once that phase is complete (a Select resolved by a choice or a skip,
\* a Wave that is won), call number i of Run.next, 1 <= i <= schedule.length,
\* returns a phase of the kind of schedule[i-1] and leaves the cursor at i-1,
\* a Wave carrying the targetScore of that descriptor; and call number
\* schedule.length + 1 returns Outcome(win) and emits onRunEnd(run, win) once.
C12_ScheduleProgression ==
  [][(NextCalled /\ rcall'.inOrder)
     => LET i == rcall'.nexts
        IN  /\ i <= Len(schedule) + 1
            /\ phaseIndex' = i - 1
            /\ i <= Len(schedule) =>
                 /\ ret'.kind = schedule[i].type
                 /\ ~ret'.error
                 /\ schedule[i].type = "select" => select'.selected = NULL
                 /\ schedule[i].type = "wave" =>
                      /\ s'.targetScore = schedule[i].targetScore
                      /\ status' = "playing"
            /\ i = Len(schedule) + 1 =>
                 /\ ret'.kind = "outcome"
                 /\ ret'.result = "win"
                 /\ Emits(emitted', "onRunEnd", "win") = 1
                 /\ EmitsAny(emitted', "onRunEnd") = 1]_vars

\* the schedule was played in order to its end: the last call returned the win
C12_Witness ==
  /\ rcall.op = "next"
  /\ rcall.inOrder
  /\ rcall.nexts = Len(schedule) + 1
  /\ ret.kind = "outcome"
  /\ ret.result = "win"

\* the inventory is in non-decreasing order of priority
Sorted(inventory) ==
  \A k \in 1..(Len(inventory) - 1) :
    Item(inventory[k]).priority <= Item(inventory[k + 1]).priority

\* `after` is `before` with `name` put in behind every item of a priority not
\* above its own, all else in place
PutInOrder(before, name, after) ==
  \E k \in 0..Len(before) :
    /\ after = SubSeq(before, 1, k) \o <<name>> \o SubSeq(before, k + 1, Len(before))
    /\ \A j \in 1..k : Item(before[j]).priority <= Item(name).priority
    /\ \A j \in (k + 1)..Len(before) : Item(before[j]).priority > Item(name).priority

C14_MismatchRejected ==
  [][(/\ NextCalled
      /\ AtPhase
      /\ rcall'.lastPhase # "undefined"
      /\ rcall'.lastPhase # PhaseAt(phaseIndex).type)
     => (/\ ret'.kind = "throw"
         /\ phaseIndex' = phaseIndex
         /\ items' = items
         /\ select' = select
         /\ state' = state)]_vars

\* C15: Run.next without a lastPhase is accepted as the first call of a Run
\* only: the first call returns a phase, every later call without a lastPhase
\* throws an Error, leaves the cursor and the inventory as they were and emits
\* no event.
C15_MissingLastPhase ==
  [][(NextCalled /\ rcall'.lastPhase = "undefined")
     => IF rcall.nexts = 0
        THEN ret'.kind # "throw" /\ phaseIndex' = 0
        ELSE /\ ret'.kind = "throw"
             /\ ret'.result = "Error"
             /\ phaseIndex' = phaseIndex
             /\ items' = items
             /\ emitted' = <<>>
             /\ select' = select
             /\ state' = state]_vars

\* a call after the first was made without a lastPhase and threw
C15_Witness ==
  /\ rcall.op = "next"
  /\ rcall.lastPhase = "undefined"
  /\ rcall.nexts = 3
  /\ ret.kind = "throw"
  /\ phaseIndex = 1

\* C16: forceWin() in any state of the Run returns Outcome(win) and emits
\* exactly one event, onRunEnd(run, win), the completion event of a win at the
\* end of the schedule; it does not move the cursor or change the inventory.
C16_ForceWin ==
  [][ForceWinCalled
     => (/\ ret' = Outcome("win")
         /\ emitted' = <<Event("onRunEnd", "win")>>
         /\ phaseIndex' = phaseIndex
         /\ items' = items
         /\ select' = select
         /\ state' = state)]_vars

\* forceWin was called in the middle of the schedule, at the wave phase
C16_Witness ==
  /\ rcall.op = "forceWin"
  /\ phaseIndex = 1
  /\ rcall.held = "wave"
  /\ ret = Outcome("win")
  /\ emitted = <<Event("onRunEnd", "win")>>

\* C17: Outcome is terminal. Once Run.next has returned an Outcome, every
\* later call of next, whatever is passed, returns an Outcome with the same
\* result, constructs no Select and no Wave and leaves the inventory as it was.
C17_OutcomeTerminal ==
  [][(NextCalled /\ rcall.held = "outcome")
     => (/\ ret'.kind = "outcome"
         /\ ret'.result = rcall.outcome
         /\ select' = select
         /\ state' = state
         /\ items' = items)]_vars

----------------------------------------------------------------------------
(* Properties of Select.sample and findMatches *)

\* the catalog items Select.sample may offer: of the kind asked for, if any,
\* and held fewer times than their limit
Eligible(inventory, only) ==
  { name \in ItemNames :
      /\ (only = "none" \/ Item(name).kind = only)
      /\ Cardinality({ k \in 1..Len(inventory) : inventory[k] = name })
           < Item(name).limit }

\* C18: Select respects limits. For every inventory, count, chance weights and
\* kind filter, the offers Select.sample returns are pairwise distinct catalog
\* items, each of the kind asked for when a kind is given, each held in the
\* inventory fewer times than its limit, and there are min(count, number of
\* eligible catalog items) of them; the call never fails to return.
C18_SelectRespectsLimits ==
  input.fn = "sample" =>
    LET eligible == Eligible(input.items, input.only)
        atMost == IF input.count < Cardinality(eligible)
                  THEN input.count ELSE Cardinality(eligible)
    IN  /\ ~output.done =>
             Sample(input.items, input.count, input.chance, input.only) # {}
        /\ output.done =>
             /\ \A j, k \in 1..Len(output.value) :
                  j # k => output.value[j] # output.value[k]
             /\ \A k \in 1..Len(output.value) : output.value[k] \in eligible
             /\ Len(output.value) = atMost

\* more offers were asked for than there are eligible items: flip_y is held
\* once, its limit, and of the actions only swap is offered
C18_Witness ==
  /\ input.fn = "sample"
  /\ output.done
  /\ input.only = "action"
  /\ input.count = 2
  /\ input.items = <<"flip_y">>
  /\ output.value = <<"swap">>

\* the pattern lies inside the grid with its top left cell at row r, column c
Inside(pgrid, grid, r, c) ==
  r + pgrid.rows <= grid.rows /\ c + pgrid.cols <= grid.cols

\* no cell of the pattern laid at (r, c) meets a grid cell that differs from
\* it while neither of the two is a Wildcard
Agrees(pgrid, grid, r, c) ==
  \A pr \in 0..(pgrid.rows - 1) : \A pc \in 0..(pgrid.cols - 1) :
    LET p == pgrid.cells[pr * pgrid.cols + pc + 1]
        q == grid.cells[(r + pr) * grid.cols + (c + pc) + 1]
    IN  p = W \/ q = W \/ p = q

\* C19: findMatches(pattern, grid) returns, in increasing row-major order,
\* exactly the anchors r * cols + c at which the bounding box of the pattern
\* lies inside the grid (no wrap over the right or the bottom edge) and no
\* pair of cells consists of two unequal cells neither of which is a
\* Wildcard; for pattern x-/-x on grid xxx-/-x-x/x-x- this is [2, 5].
C19_FindMatches ==
  (input.fn = "findMatches" /\ output.done) =>
    LET pgrid == input.pattern.grid
        grid == input.grid
        anchors == { r * grid.cols + c : <<r, c>> \in
                       { rc \in (0..(grid.rows - 1)) \X (0..(grid.cols - 1)) :
                           /\ Inside(pgrid, grid, rc[1], rc[2])
                           /\ Agrees(pgrid, grid, rc[1], rc[2]) } }
    IN  /\ { output.value[k] : k \in 1..Len(output.value) } = anchors
        /\ \A k \in 1..(Len(output.value) - 1) : output.value[k] < output.value[k + 1]
        /\ (input.pattern = testPattern /\ grid = testGrid) => output.value = <<2, 5>>

\* a pattern two columns wide matches a grid at the right edge and nowhere to
\* its left
C19_Witness ==
  /\ input.fn = "findMatches"
  /\ output.done
  /\ input.pattern.grid = Grid(1, 2, <<X, W>>)
  /\ input.grid = Grid(2, 2, <<O, X, X, O>>)
  /\ output.value = <<2>>

\* the grid with cell k (1-based) made a Wildcard
WithWildcard(grid, k) == Replace(grid, [grid.cells EXCEPT ![k] = W])

\* the anchors of a match list
AnchorSet(matches) == { matches[k] : k \in 1..Len(matches) }

\* C20: Wildcard monotonicity. For every pattern and grid, replacing any one
\* Filled cell by a Wildcard, in the grid or in the pattern, gives a match
\* list that contains every anchor of the match list before.
C20_WildcardMonotone ==
  (input.fn = "findMatches" /\ output.done) =>
    LET pattern == input.pattern
        grid == input.grid
    IN  /\ \A k \in 1..Len(grid.cells) :
             grid.cells[k] = X =>
               AnchorSet(output.value)
                 \subseteq AnchorSet(findMatches(pattern, WithWildcard(grid, k)))
        /\ \A k \in 1..Len(pattern.grid.cells) :
             pattern.grid.cells[k] = X =>
               AnchorSet(output.value)
                 \subseteq AnchorSet(findMatches(
                             [pattern EXCEPT !.grid = WithWildcard(pattern.grid, k)],
                             grid))

\* a grid with a match, where a Wildcard in place of a Filled cell keeps that
\* match and adds another
C20_Witness ==
  /\ input.fn = "findMatches"
  /\ output.done
  /\ Len(output.value) > 0
  /\ \E k \in 1..Len(input.grid.cells) :
       /\ input.grid.cells[k] = X
       /\ AnchorSet(output.value) \subseteq
            AnchorSet(findMatches(input.pattern, WithWildcard(input.grid, k)))
       /\ Len(findMatches(input.pattern, WithWildcard(input.grid, k)))
            > Len(output.value)

\* ---------------------------------------------------------------------------
\* Properties of Grid.getComponents (checked under SpecComp)
\* ---------------------------------------------------------------------------

\* the indices of the non-Empty cells of a grid
NonEmpty(grid) == { i \in 0..(grid.rows * grid.cols - 1) : grid.cells[i + 1] # O }

\* cells i and j are neighbours in the same row or in the same column
Adjacent(grid, i, j) ==
  LET ri == i \div grid.cols  ci == i % grid.cols
      rj == j \div grid.cols  cj == j % grid.cols
  IN  \/ ri = rj /\ (ci = cj + 1 \/ cj = ci + 1)
      \/ ci = cj /\ (ri = rj + 1 \/ rj = ri + 1)

\* the non-Empty cells joined to a cell of `set` by a path of adjacent
\* non-Empty cells
RECURSIVE Reach(_, _)
Reach(grid, set) ==
  LET more == set \cup { j \in NonEmpty(grid) :
                           \E i \in set : Adjacent(grid, i, j) }
  IN  IF more = set THEN set ELSE Reach(grid, more)

Members(list) == { list[p] : p \in 1..Len(list) }

MinOf(set) == CHOOSE i \in set : \A j \in set : i <= j

\* the in-bounds neighbours of a cell, in the order left, right, up, down
Neighbours(grid, idx) ==
  LET r == idx \div grid.cols
      c == idx % grid.cols
  IN  (IF c >= 1 THEN <<idx - 1>> ELSE <<>>)
      \o (IF c <= grid.cols - 2 THEN <<idx + 1>> ELSE <<>>)
      \o (IF r >= 1 THEN <<idx - grid.cols>> ELSE <<>>)
      \o (IF r <= grid.rows - 2 THEN <<idx + grid.cols>> ELSE <<>>)

\* depth-first discovery order from the cells on `stack`, written with an
\* explicit stack: a cell is listed when it is first taken from the stack
RECURSIVE Dfs(_, _, _)
Dfs(grid, stack, order) ==
  IF stack = <<>> THEN order
  ELSE LET i == Head(stack)
       IN  IF grid.cells[i + 1] = O \/ i \in Members(order)
           THEN Dfs(grid, Tail(stack), order)
           ELSE Dfs(grid, Neighbours(grid, i) \o Tail(stack), Append(order, i))

\* C21: getComponents partitions the non-Empty cells (Filled and Wildcard
\* alike): every non-Empty cell is listed exactly once, in exactly one
\* component, and Empty cells map to no component; two cells are in the same
\* component exactly when a path of 4-adjacent non-Empty cells joins them (the
\* last cell of a row is not adjacent to the first cell of the next row); and
\* cellToComponent agrees with the component lists.
C21_ComponentsPartition ==
  (input.fn = "getComponents" /\ output.done) =>
    LET grid == input.grid
        components == output.value.components
        cellToComponent == output.value.cellToComponent
        n == grid.rows * grid.cols
    IN  /\ Len(cellToComponent) = n
        /\ \A k \in 1..Len(components) : components[k] # <<>>
        /\ \A i \in 0..(n - 1) :
             IF grid.cells[i + 1] = O
             THEN /\ cellToComponent[i + 1] = NULL
                  /\ \A k \in 1..Len(components) : i \notin Members(components[k])
             ELSE /\ Cardinality({ kp \in { <<k, p>> : k \in 1..Len(components),
                                                      p \in 1..n } :
                                     /\ kp[2] <= Len(components[kp[1]])
                                     /\ components[kp[1]][kp[2]] = i }) = 1
                  /\ cellToComponent[i + 1] \in 0..(Len(components) - 1)
                  /\ i \in Members(components[cellToComponent[i + 1] + 1])
        /\ \A i, j \in NonEmpty(grid) :
             (cellToComponent[i + 1] = cellToComponent[j + 1])
               <=> (j \in Reach(grid, {i}))

\* a grid where a Filled cell ends a row and a Wildcard starts the next row,
\* not joined by any path, and the two are in different components
C21_Witness ==
  /\ input.fn = "getComponents"
  /\ output.done
  /\ \E i \in NonEmpty(input.grid) :
       /\ i % input.grid.cols = input.grid.cols - 1
       /\ input.grid.cols >= 2
       /\ i + 1 \in NonEmpty(input.grid)
       /\ input.grid.cells[i + 1] = X
       /\ input.grid.cells[i + 2] = W
       /\ i + 1 \notin Reach(input.grid, {i})
       /\ output.value.cellToComponent[i + 1] # output.value.cellToComponent[i + 2]

\* C22: component numbering is reproducible: components are numbered in
\* increasing order of their smallest cell index, each component's list starts
\* with that smallest index and lists its cells in depth-first discovery order
\* (neighbours tried left, right, up, down); for the grid xxx-/-x-x/x-x- the
\* result is [[0,1,2,5],[7],[8],[10]].
C22_ComponentNumbering ==
  (input.fn = "getComponents" /\ output.done) =>
    LET grid == input.grid
        components == output.value.components
    IN  /\ \A k \in 1..Len(components) :
             /\ components[k] # <<>>
             /\ components[k][1] = MinOf(Members(components[k]))
             /\ components[k] = Dfs(grid, <<components[k][1]>>, <<>>)
        /\ \A k, l \in 1..Len(components) :
             k < l => components[k][1] < components[l][1]
        /\ grid = Parse(<<"x", "x", "x", "-", "/", "-", "x", "-", "x", "/",
                          "x", "-", "x", "-">>) =>
             /\ components = <<<<0, 1, 2, 5>>, <<7>>, <<8>>, <<10>>>>
             /\ output.value.cellToComponent
                  = <<0, 0, 0, NULL, NULL, 0, NULL, 1, 2, NULL, 3, NULL>>

\* the grid of the test, with its four components
C22_Witness ==
  /\ input.fn = "getComponents"
  /\ output.done
  /\ input.grid = testGrid
  /\ Len(output.value.components) = 4
  /\ Len(output.value.components[1]) = 4

\* C30: every pattern of the item catalog has exactly one connected component:
\* the non-Empty cells of its template grid are 4-connected.
C30_PatternsConnected ==
  (input.fn = "getComponents" /\ output.done
     /\ \E pattern \in Patterns : pattern.grid = input.grid) =>
    /\ Len(output.value.components) = 1
    /\ NonEmpty(input.grid) # {}
    /\ \A i \in NonEmpty(input.grid) :
         Reach(input.grid, {i}) = NonEmpty(input.grid)

\* the Pinwheel pattern, whose cells span several rows and columns
C30_Witness ==
  /\ input.fn = "getComponents"
  /\ output.done
  /\ \E pattern \in Patterns :
       /\ pattern.name = "pinwheel"
       /\ pattern.grid = input.grid
       /\ input.grid.rows >= 3
       /\ Len(output.value.components) = 1

\* ---------------------------------------------------------------------------
\* Properties of Score (checked under SpecScore)
\* ---------------------------------------------------------------------------

\* the least integer n with n >= num / Scale, for num >= 0
CeilOf(num) == CHOOSE n \in 0..num : n * Scale >= num /\ (n - 1) * Scale < num

RECURSIVE SumSeq(_)
SumSeq(seq) == IF seq = <<>> THEN 0 ELSE Head(seq) + SumSeq(Tail(seq))

\* C23: a component's score is ceil(multiplier * (sum of its match points +
\* cellCount * cellPoints if it has at least one match or alwaysScoring, else
\* + 0)) and the total is ceil(globalMultiplier * (sum of component scores +
\* flatPoints)); with no bonuses a component with no match scores 0, a
\* component with matches scores the sum of its patterns' base points plus its
\* cell count, and the total is the sum of the component scores.
C23_ScoreFormula ==
  (input.fn \in {"push", "next"} /\ output.done) =>
    LET score == output.value.score
        patterns == output.value.patterns
        comps == score.components
        points(comp) == [m \in 1..Len(comp.matches) |-> comp.matches[m].points]
        base(comp) == [m \in 1..Len(comp.matches) |->
                         patterns[comp.matches[m].patternIndex + 1].points]
        scores == [k \in 1..Len(comps) |-> CompScore(comps[k])]
    IN  /\ \A k \in 1..Len(comps) :
             scores[k] =
               CeilOf(comps[k].multiplier
                      * (SumSeq(points(comps[k]))
                         + (IF Len(comps[k].matches) >= 1 \/ comps[k].alwaysScoring
                            THEN Len(comps[k].cellIndices) * comps[k].cellPoints
                            ELSE 0)))
        /\ Total(score)
             = CeilOf(score.multiplier * (SumSeq(scores) + score.flatPoints))
        /\ output.value.bonuses = <<>> =>
             /\ \A k \in 1..Len(comps) :
                  scores[k] = IF comps[k].matches = <<>> THEN 0
                              ELSE SumSeq(base(comps[k])) + Len(comps[k].cellIndices)
             /\ Total(score) = SumSeq(scores)

\* a group with a match and a multiplier of 1.15 whose product is rounded up
C23_Witness ==
  /\ input.fn = "push"
  /\ output.done
  /\ \E k \in 1..Len(output.value.score.components) :
       LET comp == output.value.score.components[k]
       IN  /\ Len(comp.matches) >= 1
           /\ comp.multiplier = Scale + 15
           /\ CompScore(comp) * Scale
                > comp.multiplier
                  * (SumPoints(comp.matches)
                     + Len(comp.cellIndices) * comp.cellPoints)
           /\ Total(output.value.score) >= CompScore(comp)

\* the grid cells under the Filled and Wildcard cells of a pattern anchored at
\* `anchor`
Under(pattern, grid, anchor) ==
  { anchor + (j \div pattern.grid.cols) * grid.cols + (j % pattern.grid.cols) :
      j \in { jj \in 0..(pattern.grid.rows * pattern.grid.cols - 1) :
                pattern.grid.cells[jj + 1] # O } }

\* the match records of a component for pattern pIdx at `anchor`
Records(comp, pIdx, anchor) ==
  { m \in 1..Len(comp.matches) :
      comp.matches[m].patternIndex = pIdx /\ comp.matches[m].position = anchor }

\* C24: for every pattern match, Score.create attaches exactly one match
\* record (position = anchor, points = the pattern's base points) to each
\* distinct component that contains a grid cell lying under a Filled or
\* Wildcard cell of the pattern, and to no other component.
C24_MatchAttribution ==
  (input.fn \in {"push", "next"} /\ output.done) =>
    LET grid == input.grid
        patterns == output.value.patterns
        comps == output.value.created.components
    IN  \A p \in 1..Len(patterns) :
          \A anchor \in 0..(grid.rows * grid.cols - 1) :
            \A k \in 1..Len(comps) :
              LET recs == Records(comps[k], p - 1, anchor)
              IN  IF /\ anchor \in Members(findMatches(patterns[p], grid))
                     /\ Members(comps[k].cellIndices)
                          \cap Under(patterns[p], grid, anchor) # {}
                  THEN /\ Cardinality(recs) = 1
                       /\ \A m \in recs :
                            comps[k].matches[m].points = patterns[p].points
                  ELSE recs = {}

\* C25: every time a grid is pushed, each bonus hook runs exactly once on the
\* fresh Score, in the order of the wave's bonus list, each seeing the
\* mutations of the earlier ones; for a Wave created by Run.next the list is
\* the bonus items of the Run in non-decreasing priority, whatever order the
\* items were acquired in.
C25_BonusOrder ==
  (input.fn \in {"push", "next"} /\ output.done) =>
    LET bonuses == output.value.bonuses
        n == Len(bonuses)
        After[k \in 0..n] ==
          IF k = 0 THEN output.value.created
          ELSE onScore(bonuses[k], After[k - 1], input.grid)
    IN  /\ output.value.score = After[n]
        /\ input.fn = "push" => bonuses = input.bonuses
        /\ input.fn = "next" =>
             /\ \A k, l \in 1..n :
                  k < l => Item(bonuses[k]).priority <= Item(bonuses[l]).priority
             /\ \A name \in ItemNames :
                  Cardinality({ k \in 1..n : bonuses[k] = name })
                    = IF Item(name).kind = "bonus"
                      THEN Cardinality({ k \in 1..Len(input.items) :
                                           input.items[k] = name })
                      ELSE 0

\* a Run given score_every_group before points_per_cell: the Wave runs the
\* hook of points_per_cell first
C25_Witness ==
  /\ input.fn = "next"
  /\ output.done
  /\ input.items = <<"score_every_group", "points_per_cell">>
  /\ output.value.bonuses = <<"points_per_cell", "score_every_group">>
  /\ \A k \in 1..Len(output.value.score.components) :
       /\ output.value.score.components[k].alwaysScoring
       /\ output.value.score.components[k].cellPoints = 2

\* ---------------------------------------------------------------------------
\* Dev mode (checked under Spec)
\* ---------------------------------------------------------------------------

\* C27 as stated: with dev mode on, the status is win right after every
\* successful submit.
C27_DevModeImmediateWin ==
  [][(last'.op = "submit" /\ status = "playing" /\ DEV_MODE)
       => status' = "win"]_vars

\* C27: with dev mode on the score is not looked at. A successful submit adds
\* one to frame; while frame < maxFrames the status stays playing and the
\* submit cascades into a fresh board with the whole re-roll budget, and once
\* frame >= maxFrames the status is win. The status is never lose.
C27_DevModeOverride ==
  [][(last'.op = "submit" /\ status = "playing" /\ DEV_MODE)
       => /\ frame' = frame + 1
          /\ IF frame' < s.maxFrames
             THEN /\ status' = "playing"
                  /\ roll' = 0
                  /\ Len(state') = 1
                  /\ stateIndex' = 0
             ELSE /\ status' = "win"
                  /\ state' = state
                  /\ stateIndex' = stateIndex]_vars

\* dev mode on, a frame was submitted, the total has reached the target, and
\* the wave is still playing on a fresh board
C27_Witness ==
  /\ DEV_MODE
  /\ last.op = "submit" /\ last.done
  /\ frame >= 1 /\ frame < s.maxFrames
  /\ totalScore >= s.targetScore
  /\ status = "playing"
  /\ Len(state) = 1 /\ roll = 0

\* ---------------------------------------------------------------------------
\* Run.next and a Wave that is passed back (checked under SpecRun)
\* ---------------------------------------------------------------------------

\* C26: onWaveComplete(wave) is fired for a submitted frame that ended a wave:
\* a call of Run.next emits onWaveComplete only for a Wave whose status is win
\* or lose, never for a Wave whose status is still playing.
C26_WaveCompleteOnlyWhenOver ==
  [][NextCalled
       => (EmitsAny(emitted', "onWaveComplete") > 0
             => status \in {"win", "lose"})]_vars

\* C28: when Run.next is called, at a phase of the schedule, with the Wave
\* while its status is still playing, the run treats it as a win: the cursor
\* advances by one and the next scheduled phase is returned, or Outcome(win)
\* with onRunEnd(run, win) when the cursor has passed the end; no Outcome(lose)
\* is returned and no onRunEnd(run, lose) is emitted.
C28_PlayingWaveTreatedAsWin ==
  [][(/\ NextCalled
      /\ rcall'.lastPhase = "wave"
      /\ AtPhase
      /\ status = "playing")
     => (/\ phaseIndex' = phaseIndex + 1
         /\ IF phaseIndex' < Len(schedule)
            THEN ret'.kind = schedule[phaseIndex' + 1].type
            ELSE /\ ret'.kind = "outcome"
                 /\ ret'.result = "win"
                 /\ Emits(emitted', "onRunEnd", "win") = 1
         /\ ~(ret'.kind = "outcome" /\ ret'.result = "lose")
         /\ ret'.kind # "throw"
         /\ Emits(emitted', "onRunEnd", "lose") = 0)]_vars

\* the Wave was passed back at its own phase while still playing, and the Run
\* went on to the Select that follows
C28_Witness ==
  /\ rcall.op = "next"
  /\ rcall.lastPhase = "wave"
  /\ ret.kind = "select"
  /\ ret.error
  /\ phaseIndex = 2
  /\ schedule[phaseIndex].type = "wave"
  /\ status = "playing"
  /\ frame = 0

\* ---------------------------------------------------------------------------
\* Properties of the actions (checked under SpecAction)
\* ---------------------------------------------------------------------------

\* C29: actions are pure grid transforms: executing any catalog action returns
\* a grid with the same rows and cols and rows*cols cells and leaves the cells
\* of the input grid unchanged; swap(i, j) returns the grid with exactly the
\* cells at i and j exchanged and every other cell equal (on x-/-- with i = 0,
\* j = 2 the Filled cell moves from row 0 to row 1).
C29_ActionsPure ==
  (input.fn = "execute" /\ output.done) =>
    LET grid == input.grid
        result == output.value.result
    IN  /\ result.rows = grid.rows
        /\ result.cols = grid.cols
        /\ Len(result.cells) = grid.rows * grid.cols
        /\ \A k \in 1..Len(result.cells) : result.cells[k] \in {O, X, W}
        /\ output.value.cells = grid.cells
        /\ input.action = "swap" =>
             /\ result.cells[input.arg.i + 1] = grid.cells[input.arg.j + 1]
             /\ result.cells[input.arg.j + 1] = grid.cells[input.arg.i + 1]
             /\ \A k \in 0..(Len(grid.cells) - 1) :
                  k \notin {input.arg.i, input.arg.j}
                    => result.cells[k + 1] = grid.cells[k + 1]
        /\ (/\ input.action = "swap"
            /\ grid = Parse(<<"x", "-", "/", "-", "-">>)
            /\ input.arg = [i |-> 0, j |-> 2])
             => result.cells = <<O, O, X, O>>

\* the swap of the test: x-/-- with i = 0, j = 2
C29_Witness ==
  /\ input.fn = "execute"
  /\ output.done
  /\ input.action = "swap"
  /\ input.grid = Grid(2, 2, <<X, O, O, O>>)
  /\ input.arg = [i |-> 0, j |-> 2]
  /\ output.value.result.cells # input.grid.cells
  /\ output.value.cells = <<X, O, O, O>>

\* ---------------------------------------------------------------------------
\* Structure of the Wave history (checked under Spec)
\* ---------------------------------------------------------------------------

\* C31: Wave structural invariant. After construction and after any sequence
\* of execute, undo, redo, reroll and submit calls the history is non-empty,
\* 0 <= cursor <= history.length - 1, entry 0 records no action and every
\* later entry records an action index, 0 <= frame <= maxFrames and
\* 0 <= roll <= maxRolls; a new Wave has one entry, cursor 0, frame 0, roll 0
\* and totalScore 0.
C31_WaveStructure ==
  /\ Len(state) >= 1
  /\ stateIndex >= 0
  /\ stateIndex <= Len(state) - 1
  /\ state[1].action = NULL
  /\ \A k \in 2..Len(state) : state[k].action \in 0..(Len(s.actions) - 1)
  /\ frame >= 0 /\ frame <= s.maxFrames
  /\ roll >= 0 /\ roll <= s.maxRolls
  /\ last.op = "new" =>
       /\ Len(state) = 1
       /\ stateIndex = 0
       /\ frame = 0
       /\ roll = 0
       /\ totalScore = 0

\* a frame was submitted, a reroll spent, an action executed and undone: the
\* cursor is below the end of the history
C31_Witness ==
  /\ frame >= 1
  /\ roll = s.maxRolls
  /\ Len(state) = 2
  /\ stateIndex = 0
  /\ state[2].action # NULL

\* C32: a successful execute from cursor k truncates the redo tail: afterwards
\* the history has exactly k + 2 entries, entries 0..k are the entries they
\* were, the new last entry holds the transformed grid, its score (a fresh
\* Score, with the hooks run) and the action index, the cursor is k + 1, redo
\* is impossible, and the actions available are those available before less
\* the one executed (an action only in the discarded tail is available).
C32_ExecuteTruncates ==
  [][(last'.op = "execute" /\ hasAction(last'.action))
       => LET k == stateIndex
              action == last'.action
          IN  /\ Len(state') = k + 2
              /\ SubSeq(state', 1, k + 1) = SubSeq(state, 1, k + 1)
              /\ stateIndex' = k + 1
              /\ ~canRedo'
              /\ state'[k + 2].action = action
              /\ \E arg \in Args(s.actions[action + 1], state[k + 1].grid) :
                   LET grid == execute(s.actions[action + 1],
                                       state[k + 1].grid, arg)
                   IN  /\ state'[k + 2].grid = grid
                       /\ state'[k + 2].score
                            = RunBonuses(s.bonuses,
                                         ScoreCreate(grid, s.patterns,
                                                     scoresCreated + 1),
                                         grid)
              /\ \A a \in 0..(Len(s.actions) - 1) :
                   hasAction(a)' <=> (a # action /\ hasAction(a))]_vars

\* an action was executed, undone, and the other action executed in its place:
\* the first is out of the history and available again
C32_Witness ==
  /\ last.op = "execute" /\ ~last.error
  /\ Len(state) = 2
  /\ stateIndex = 1
  /\ scoresCreated = 3
  /\ roll = 0 /\ frame = 0
  /\ \E a \in 0..(Len(s.actions) - 1) : a # last.action /\ hasAction(a)

\* C33: Bounded wave length. With dev mode on or off a Wave accepts at most
\* maxFrames successful submits: frame counts them (one onGridScored each), a
\* submit succeeds only while frame < maxFrames, and once frame = maxFrames
\* the status is win or lose.
C33_BoundedWave ==
  /\ [](/\ Len(gridScored) = frame
        /\ frame <= s.maxFrames
        /\ frame = s.maxFrames => status \in {"win", "lose"})
  /\ [][(last'.op = "submit" /\ last'.done)
          => /\ frame < s.maxFrames
             /\ frame' = frame + 1
             /\ Len(gridScored') = Len(gridScored) + 1]_vars
  /\ [][frame' # frame => (last'.op = "submit" /\ last'.done)]_vars

\* maxFrames frames were submitted with dev mode on at the last submit, and
\* the wave is over
C33_Witness ==
  /\ last.op = "submit" /\ last.done
  /\ DEV_MODE
  /\ frame = s.maxFrames
  /\ Len(gridScored) = s.maxFrames
  /\ status = "win"
  /\ totalScore < s.targetScore

\* C34: the actions a Wave reports as used when onGridScored reads usedActions
\* at a submit are exactly the actions recorded in history entries 1..cursor,
\* those applied to reach the submitted grid, and the complement of
\* availableActions; an action undone before the submit is not reported.
C34_UsedActions ==
  [][(last'.op = "submit" /\ last'.done)
       => /\ usedActions
               = [k \in 1..stateIndex |-> s.actions[state[k + 1].action + 1]]
          /\ \A idx \in 0..(Len(s.actions) - 1) :
               (\E k \in 1..Len(usedActions) : usedActions[k] = s.actions[idx + 1])
                 <=> ~(\E k \in 1..Len(availableActions) :
                         availableActions[k][2] = idx)]_vars

\* ---------------------------------------------------------------------------
\* Lifecycle events and counters of the Run (checked under SpecRun)
\* ---------------------------------------------------------------------------

\* C35: Run lifecycle events are paired. Over any sequence of next and
\* forceWin calls on one Run, onRunStart is emitted only at construction, a
\* call emits onRunEnd at most once and only with the Outcome it returns, and
\* once onRunEnd was emitted (next has returned an Outcome, or the call before
\* was forceWin) no call emits onRunEnd again.
C35_RunEventsPaired ==
  [][(NextCalled \/ ForceWinCalled)
       => /\ EmitsAny(emitted', "onRunStart") = 0
          /\ EmitsAny(emitted', "onRunEnd") <= 1
          /\ \A result \in {"win", "lose"} :
               Emits(emitted', "onRunEnd", result) = 1
                 => (ret'.kind = "outcome" /\ ret'.result = result)
          /\ (rcall.held = "outcome" \/ rcall.op = "forceWin")
               => EmitsAny(emitted', "onRunEnd") = 0]_vars

\* C36: in every reachable Run state, also after next has returned the
\* terminal Outcome(win), waveCount() returns without error the number of
\* Wave phases that next has returned so far (none before the Wave of the
\* schedule exists, one after), and 0 <= waveCount() <= totalWaves().
C36_WaveCount ==
  /\ ~waveCount.throws
  /\ waveCount.value >= 0
  /\ waveCount.value <= totalWaves
  /\ waveCount.value = (IF WaveExists THEN 1 ELSE 0)

\* ---------------------------------------------------------------------------
\* Weights of the offers (checked under SpecSample)
\* ---------------------------------------------------------------------------

\* C37: Select.sample never offers an item whose sampling weight
\* chance[item.freq] * item.freqMultiplier is 0, also when every remaining
\* eligible candidate has weight 0.
C37_NoZeroWeightOffer ==
  (input.fn = "sample" /\ output.done) =>
    \A k \in 1..Len(output.value) :
      input.chance[Item(output.value[k]).freq]
        * Item(output.value[k]).freqMultiplier > 0

\* ---------------------------------------------------------------------------
\* Limits of the inventory (checked under SpecRun)
\* ---------------------------------------------------------------------------

\* no item is held more often than its limit
WithinLimits(inventory) ==
  \A name \in ItemNames : Held(inventory, name) <= Item(name).limit

\* C38: Inventory limit invariant. The initial inventory holds no item more
\* often than its limit; a call of next that is passed, if a Select, the
\* Select that next returned last (selected = skip, unset or an offer index)
\* keeps every item at or below its limit and adds one item exactly when the
\* Select is resolved with an offer; no other step changes the inventory. So
\* while the caller passes the phases back in order every item occurs at most
\* limit times.
C38_InventoryLimits ==
  /\ [](rcall.inOrder => WithinLimits(items))
  /\ [][(/\ NextCalled
         /\ WithinLimits(items)
         /\ (rcall'.lastPhase = "select" => rcall.held = "select"))
        => /\ WithinLimits(items')
           /\ Len(items') = Len(items)
                + (IF /\ rcall'.lastPhase = "select"
                      /\ select.selected # NULL
                      /\ select.selected # SKIP
                   THEN 1 ELSE 0)]_vars
  /\ [][~NextCalled => items' = items]_vars

\* the schedule was played in order and both Selects were resolved with an
\* offer: two items more than at the start, score_every_group still held once
C38_Witness ==
  /\ rcall.inOrder
  /\ ret.kind = "outcome"
  /\ Len(items) = Len(runSettings.items) + 2
  /\ Held(items, "score_every_group") = Item("score_every_group").limit
  /\ WithinLimits(items)

\* ---------------------------------------------------------------------------
\* Attribution of matches without Wildcards (checked under SpecScore)
\* ---------------------------------------------------------------------------

\* the non-Empty cells of the grid are one 4-connected group
Connected(grid) ==
  /\ NonEmpty(grid) # {}
  /\ \A i \in NonEmpty(grid) : Reach(grid, {i}) = NonEmpty(grid)

NoWildcard(grid) == \A i \in 1..Len(grid.cells) : grid.cells[i] # W

\* every match of patterns[p] has one record in exactly one component, and
\* the components hold as many records of the pattern as there are matches
AttachedOnce(comps, patterns, p, grid) ==
  LET found == findMatches(patterns[p], grid)
      count[k \in 0..Len(comps)] ==
        IF k = 0 THEN 0
        ELSE count[k - 1]
             + Cardinality({ m \in 1..Len(comps[k].matches) :
                               comps[k].matches[m].patternIndex = p - 1 })
  IN  /\ \A a \in 1..Len(found) :
           /\ Cardinality({ k \in 1..Len(comps) :
                              Records(comps[k], p - 1, found[a]) # {} }) = 1
           /\ \A k \in 1..Len(comps) :
                Cardinality(Records(comps[k], p - 1, found[a])) <= 1
      /\ count[Len(comps)] = Len(found)

\* C39 as stated: if the grid contains no Wildcard cell and the pattern's
\* non-Empty cells are 4-connected, every match of the pattern is attached to
\* exactly one component, so the sum over components of the number of match
\* records equals the total number of matches found.
C39_NoDoubleCounting ==
  (input.fn \in {"push", "next"} /\ output.done /\ NoWildcard(input.grid)) =>
    \A p \in 1..Len(output.value.patterns) :
      Connected(output.value.patterns[p].grid) =>
        AttachedOnce(output.value.created.components, output.value.patterns,
                     p, input.grid)

\* C39, amended: no double counting when neither the grid nor the pattern
\* holds a Wildcard cell and the pattern's Filled cells are 4-connected: then
\* every match of the pattern is attached to exactly one component and the
\* components hold as many match records as there are matches.
C39_NoDoubleCountingPlain ==
  (input.fn \in {"push", "next"} /\ output.done /\ NoWildcard(input.grid)) =>
    \A p \in 1..Len(output.value.patterns) :
      (/\ Connected(output.value.patterns[p].grid)
       /\ NoWildcard(output.value.patterns[p].grid)) =>
        AttachedOnce(output.value.created.components, output.value.patterns,
                     p, input.grid)

\* a grid of two groups without Wildcard, one of them matched by the pattern
C39_Witness ==
  /\ input.fn = "push"
  /\ output.done
  /\ NoWildcard(input.grid)
  /\ Len(output.value.created.components) >= 2
  /\ \E p \in 1..Len(output.value.patterns) :
       /\ Connected(output.value.patterns[p].grid)
       /\ NoWildcard(output.value.patterns[p].grid)
       /\ findMatches(output.value.patterns[p], input.grid) # <<>>
       /\ \E k \in 1..Len(output.value.created.components) :
            output.value.created.components[k].matches = <<>>

\* ---------------------------------------------------------------------------
\* Conservation of the cells by the actions (checked under SpecAction)
\* ---------------------------------------------------------------------------

\* how many cells of the list are `cell`
CountOf(cells, cell) == Cardinality({ i \in 1..Len(cells) : cells[i] = cell })

\* the direction that undoes a shift
Opposite(direction) ==
  CASE direction = "up"    -> "down"
    [] direction = "down"  -> "up"
    [] direction = "left"  -> "right"
    [] direction = "right" -> "left"

\* the cell indices of the row or column a shift argument names, first to last
Line(grid, arg) ==
  IF arg.direction \in {"up", "down"}
  THEN [n \in 1..grid.rows |-> arg.index + grid.cols * (n - 1)]
  ELSE [n \in 1..grid.cols |-> grid.cols * arg.index + (n - 1)]

\* C40: Cell conservation: swap, shift (any line and direction), flip_y and
\* gravity each return a grid of the same size whose cells are a permutation
\* of the input's cells, so the numbers of Empty, Filled and Wildcard cells
\* are unchanged; shift rotates only the chosen row or column cyclically by
\* one position (up and left towards the first cell, down and right towards
\* the last), so shifting the same line in the opposite direction restores
\* the grid; and flip_y applied twice restores the grid.
C40_CellConservation ==
  (/\ input.fn = "execute"
   /\ output.done
   /\ input.action \in {"swap", "shift", "flip_y", "gravity"}) =>
    LET grid == input.grid
        result == output.value.result
    IN  /\ result.rows = grid.rows
        /\ result.cols = grid.cols
        /\ Len(result.cells) = Len(grid.cells)
        /\ \A cell \in {O, X, W} :
             CountOf(result.cells, cell) = CountOf(grid.cells, cell)
        /\ input.action = "shift" =>
             LET line == Line(grid, input.arg)
                 count == Len(line)
                 step == IF input.arg.direction \in {"up", "left"}
                         THEN 1 ELSE count - 1
             IN  /\ \A n \in 1..count :
                      result.cells[line[n] + 1]
                        = grid.cells[line[((n - 1 + step) % count) + 1] + 1]
                 /\ \A i \in 0..(Len(grid.cells) - 1) :
                      i \notin Members(line) =>
                        result.cells[i + 1] = grid.cells[i + 1]
                 /\ execute("shift", result,
                            [index |-> input.arg.index,
                             direction |-> Opposite(input.arg.direction)])
                      = grid
        /\ input.action = "flip_y" =>
             execute("flip_y", result, NoArg) = grid

\* a column of three different cells shifted up: the cells moved, none was
\* lost
C40_Witness ==
  /\ input.fn = "execute"
  /\ output.done
  /\ input.action = "shift"
  /\ input.arg.direction = "up"
  /\ input.grid.rows = 3
  /\ input.grid.cells = <<O, X, W>>
  /\ output.value.result.cells = <<X, W, O>>

====
